---- MODULE Spec2Model ----
(***************************************************************************)
(* A state-machine model of pipeline/scripts/vae_cluster.py: main() runs   *)
(* load -> train -> latent extraction -> standardization -> reduction      *)
(* fallback chain -> clustering -> novelty scoring -> save.                *)
(*                                                                         *)
(* Matrices are modelled as records [tier, nan, pts]: the stage that       *)
(* produced the matrix, whether it holds NaN, and one integer coordinate   *)
(* per row.  What numpy, torch, sklearn, umap and hdbscan return is drawn  *)
(* from bounded sets; what main() does with it is translated line by line. *)
(* Definitions introduced as "a variant" are deliberately faulty versions  *)
(* of the definition that follows them, used to test the properties.       *)
(*                                                                         *)
(* Spec is the whole run.  TrainSpec is the training loop alone, over more *)
(* rows than the whole run affords; BetaSpec tabulates the beta schedule   *)
(* over a range of configurations; ScoreSpec applies novelty scoring to    *)
(* every projected matrix and labelling within its bounds.  The three use  *)
(* the same actions and operators as Spec.                                 *)
(*                                                                         *)
(* PassSpec runs the lines after the training loop twice over the same     *)
(* encoder means with independent sampling noise.  OrchSpec models main()  *)
(* of pipeline/scripts/run_pipeline.py; TrimSpec and PrepSpec model        *)
(* sliding_window_trim and the read loop of pipeline/scripts/preprocess.py.*)
(***************************************************************************)
EXTENDS Integers, Sequences, FiniteSets, TLC

\* ------------------------------------------------------------------ bounds
\* Largest number of rows of the embedding matrix.
MaxN == 2
\* Largest number of rows of the read-identifier table.
MaxIds == 3
\* Projected coordinates range over 0..MaxCoord.
MaxCoord == 1
\* Cluster labels returned by the clusterer range over NoiseLabel..MaxLabel.
MaxLabel == 1
\* Epoch budget E of the training loop (50 in the source, scaled down here).
epochs == 2

\* Minibatch size (128 in the source, scaled down here).
batch_size == 2
\* Largest number of rows when the training loop is explored on its own.
MaxTrainN == 3
\* The loss of a minibatch ranges over 0..MaxLoss.
MaxLoss == 1
\* The beta schedule is tabulated for warm-ups of 0..MaxW epochs, epoch
\* budgets of 1..MaxE and final weights of 1..MaxBetaFinal.
MaxW == 3
MaxE == 5
MaxBetaFinal == 2
\* Largest number of rows when novelty scoring is explored on its own.
MaxScoreN == 4
\* Largest sampling noise of a post-training pass, in units of std.
MaxNoise == 1
\* Largest exit status of a step's command.
MaxExit == 1
\* Longest quality list, largest quality value and widest window when
\* sliding_window_trim is explored on its own.
MaxQualLen == 4
MaxQ == 2
MaxWindow == 3
\* Most records of an input file, longest read and largest quality value
\* when the read loop is explored.
MaxReads == 3
MaxReadLen == 1
MaxReadQ == 1

\* The reserved label of noise points.
NoiseLabel == -1
\* beta_final and beta_warmup_epochs of the configuration.
beta_final == 10
beta_warmup_epochs == 10
\* input_noise_std = 0.01 is positive: the minibatch is noised.
AddsNoise == TRUE

VARIABLES
    emb_file,         \* the embedding file the resolved path names
    ids_file,         \* the read-identifier table the resolved path names
    has_umap,         \* _HAS_UMAP, fixed at import time
    pc,               \* position of main()
    exit_code,        \* exit status of the process (0 unless it aborted)
    log,              \* what the run printed, in order
    embeddings,       \* embeddings (rows), after loading and truncation
    read_ids,         \* read_ids, after loading and truncation
    epoch,            \* the epoch counter of the training loop
    latent,           \* the encoder's mean output, one row per read
    recon_errors,     \* recon_errors, one per row
    latent_scaled,    \* the standardized latent matrix
    use_umap,         \* the local copy of _HAS_UMAP
    latent_proj,      \* the clustering input
    cluster_labels,   \* cluster_labels, one per row
    centroids,        \* centroids, one per cluster (none before scoring)
    cluster_distance, \* cluster_distance, one per row
    clusters_csv,     \* the cluster table on disk
    novelty_csv,      \* the novelty table on disk
    attempts,         \* history: the reduction tiers tried, in order
    umap_result,      \* history: how the manifold tier ended
    pca_result,       \* history: how the linear tier ended
    cluster_calls,    \* history: number of fit_predict calls
    failed_stage,     \* history: the stage whose exception ended the run
    loop,             \* the locals of the training loop, and its position
    updates,          \* number of optimizer.step() calls applied to the model
    sched,            \* the beta schedule, tabulated on its own
    pass,             \* two post-training passes over the same parameters
    orch,             \* the orchestrator run_pipeline.py
    trim,             \* one call of sliding_window_trim
    prep              \* the read loop of preprocess.py

vars == <<emb_file, ids_file, has_umap, pc, exit_code, log, embeddings, read_ids,
          epoch, latent, recon_errors, latent_scaled, use_umap, latent_proj,
          cluster_labels, cluster_distance, clusters_csv, novelty_csv,
          attempts, umap_result, pca_result, cluster_calls, failed_stage,
          loop, updates, sched, centroids, pass, orch, trim, prep>>

\* ------------------------------------------------------------ pure helpers
Min(a, b) == IF a < b THEN a ELSE b

Abs(a) == IF a < 0 THEN -a ELSE a

Digit(d) == <<"0", "1", "2", "3", "4", "5", "6", "7", "8", "9">>[d + 1]

\* str(n) of a non-negative integer: its decimal digits.
RECURSIVE Str(_)
Str(n) == IF n < 10 THEN Digit(n) ELSE Str(n \div 10) \o Digit(n % 10)

\* Identifiers of the read-identifier table, row by row.
IdPool == <<"seq_a", "seq_b", "seq_c", "seq_d", "seq_e", "seq_f">>

\* A variant that numbers the reads from 1.
DefaultIdsOffByOne(n) == [i \in 1..n |-> Str(i)]

\* np.arange(n).astype(str)
DefaultIds(n) == [i \in 1..n |-> Str(i - 1)]

\* A variant that keeps the last n entries, s[-n:].
TruncateTail(s, n) == SubSeq(s, Len(s) - n + 1, Len(s))

\* s[:n]
Truncate(s, n) == SubSeq(s, 1, n)

Matrix(t, isnan, p) == [tier |-> t, nan |-> isnan, pts |-> p]

\* latent_proj = None
NoMatrix == Matrix("None", FALSE, <<>>)

\* The matrices of n rows a library call can return.
Vectors(n) == [1..n -> 0..MaxCoord]

Zeros(n) == [i \in 1..n |-> 0]

NoTable == [written |-> FALSE, rows |-> <<>>]

\* The locals of the training loop before the first epoch.
LoopIdle ==
    [at |-> "epoch_start", batches |-> <<>>, x_batch |-> <<>>, x_noisy |-> <<>>,
     fwd_input |-> <<>>, loss_target |-> <<>>, grads |-> "none", ops |-> <<>>,
     loss |-> 0, total_loss |-> 0, n_batches |-> 0, seen |-> <<>>,
     beta |-> [num |-> 0, den |-> 1]]

\* No schedule is being tabulated.
NoSchedule == [W |-> 0, E |-> 0, bf |-> 0, hist |-> <<>>]

\* No second pass, orchestrator, trim call or read loop is being explored.
Aside ==
    /\ pass = <<>>
    /\ orch = <<>>
    /\ trim = <<>>
    /\ prep = <<>>

\* ------------------------------------------------------------------- Init
\* The state main() is in once the input and output paths are resolved.
\* The rows of the embedding file are told apart by their position; the flag
\* identical says that all of them hold the same vector.
Init ==
    /\ \E st \in {"nopath", "missing", "unreadable", "ok"}, n \in 0..MaxN,
          same \in BOOLEAN :
          emb_file = [status |-> st,
                      rows |-> IF st = "ok" THEN [k \in 1..n |-> k] ELSE <<>>,
                      identical |-> st = "ok" /\ (n <= 1 \/ same)]
    /\ \E st \in {"absent", "unreadable", "ok"}, i \in 0..MaxIds :
          ids_file = [status |-> st,
                      ids |-> IF st = "ok" THEN SubSeq(IdPool, 1, i) ELSE <<>>]
    /\ has_umap \in BOOLEAN
    /\ pc = "load_emb"
    /\ exit_code = 0
    /\ log = <<>>
    /\ embeddings = <<>>
    /\ read_ids = <<>>
    /\ epoch = 0
    /\ latent = NoMatrix
    /\ recon_errors = <<>>
    /\ latent_scaled = NoMatrix
    /\ use_umap = FALSE
    /\ latent_proj = NoMatrix
    /\ cluster_labels = <<>>
    /\ centroids = <<>>
    /\ cluster_distance = <<>>
    /\ clusters_csv = NoTable
    /\ novelty_csv = NoTable
    /\ attempts = <<>>
    /\ umap_result = "not run"
    /\ pca_result = "not run"
    /\ cluster_calls = 0
    /\ failed_stage = "none"
    /\ loop = LoopIdle
    /\ updates = 0
    /\ sched = NoSchedule
    /\ Aside

inputs == <<emb_file, ids_file, has_umap>>

side == <<pass, orch, trim, prep>>

training == <<loop, updates>>

\* An uncaught exception: traceback on stderr, exit status 1.
Crash(stage) ==
    /\ pc' = "exit"
    /\ exit_code' = 1
    /\ failed_stage' = stage

\* ---------------------------------------------------------------- loading
\* A variant that reports the missing file and returns normally.
LoadEmbeddingsMissingReturns ==
    /\ pc = "load_emb"
    /\ emb_file.status \in {"nopath", "missing"}
    /\ log' = Append(log, "ERROR: embeddings file not found")
    /\ pc' = "exit"
    /\ UNCHANGED <<inputs, training, sched, side, centroids, exit_code, embeddings, read_ids, epoch, latent,
                   recon_errors, latent_scaled, use_umap, latent_proj,
                   cluster_labels, cluster_distance, clusters_csv, novelty_csv,
                   attempts, umap_result, pca_result, cluster_calls, failed_stage>>

\* sys.exit(1) when no path was resolved or the path does not exist.
LoadEmbeddingsMissing ==
    /\ pc = "load_emb"
    /\ emb_file.status \in {"nopath", "missing"}
    /\ log' = Append(log, "ERROR: embeddings file not found")
    /\ pc' = "exit"
    /\ exit_code' = 1
    /\ UNCHANGED <<inputs, training, sched, side, centroids, embeddings, read_ids, epoch, latent, recon_errors, latent_scaled,
                   use_umap, latent_proj, cluster_labels, cluster_distance,
                   clusters_csv, novelty_csv, attempts, umap_result, pca_result,
                   cluster_calls, failed_stage>>

\* np.load raises on a file it cannot read.
LoadEmbeddingsUnreadable ==
    /\ pc = "load_emb"
    /\ emb_file.status = "unreadable"
    /\ log' = log \o <<"Loading embeddings", "Traceback">>
    /\ Crash("load_emb")
    /\ UNCHANGED <<inputs, training, sched, side, centroids, embeddings, read_ids, epoch, latent, recon_errors, latent_scaled,
                   use_umap, latent_proj, cluster_labels, cluster_distance,
                   clusters_csv, novelty_csv, attempts, umap_result, pca_result,
                   cluster_calls>>

LoadEmbeddingsOk ==
    /\ pc = "load_emb"
    /\ emb_file.status = "ok"
    /\ log' = Append(log, "Loading embeddings")
    /\ embeddings' = emb_file.rows
    /\ pc' = "load_ids"
    /\ UNCHANGED <<inputs, training, sched, side, centroids, exit_code, read_ids, epoch, latent, recon_errors, latent_scaled,
                   use_umap, latent_proj, cluster_labels, cluster_distance,
                   clusters_csv, novelty_csv, attempts, umap_result, pca_result,
                   cluster_calls, failed_stage>>

LoadEmbeddings ==
    \/ LoadEmbeddingsMissing
    \/ LoadEmbeddingsUnreadable
    \/ LoadEmbeddingsOk

\* The identifier table is absent: identifiers default to the row indices.
LoadIdsAbsent ==
    /\ pc = "load_ids"
    /\ ids_file.status = "absent"
    /\ log' = Append(log, "WARNING: dedup_counts.csv not found")
    /\ read_ids' = DefaultIds(Len(embeddings))
    /\ pc' = "align"
    /\ UNCHANGED <<inputs, training, sched, side, centroids, exit_code, embeddings, epoch, latent, recon_errors,
                   latent_scaled, use_umap, latent_proj, cluster_labels,
                   cluster_distance, clusters_csv, novelty_csv, attempts,
                   umap_result, pca_result, cluster_calls, failed_stage>>

\* pd.read_csv raises on a table it cannot parse.
LoadIdsUnreadable ==
    /\ pc = "load_ids"
    /\ ids_file.status = "unreadable"
    /\ log' = log \o <<"Loading sequence IDs", "Traceback">>
    /\ Crash("load_ids")
    /\ UNCHANGED <<inputs, training, sched, side, centroids, embeddings, read_ids, epoch, latent, recon_errors,
                   latent_scaled, use_umap, latent_proj, cluster_labels,
                   cluster_distance, clusters_csv, novelty_csv, attempts,
                   umap_result, pca_result, cluster_calls>>

LoadIdsOk ==
    /\ pc = "load_ids"
    /\ ids_file.status = "ok"
    /\ log' = Append(log, "Loading sequence IDs")
    /\ read_ids' = ids_file.ids
    /\ pc' = "align"
    /\ UNCHANGED <<inputs, training, sched, side, centroids, exit_code, embeddings, epoch, latent, recon_errors,
                   latent_scaled, use_umap, latent_proj, cluster_labels,
                   cluster_distance, clusters_csv, novelty_csv, attempts,
                   umap_result, pca_result, cluster_calls, failed_stage>>

LoadIds ==
    \/ LoadIdsAbsent
    \/ LoadIdsUnreadable
    \/ LoadIdsOk

\* Truncation of both lists to the shorter length, with a warning.
Align ==
    /\ pc = "align"
    /\ IF Len(read_ids) # Len(embeddings)
       THEN LET minlen == Min(Len(read_ids), Len(embeddings)) IN
            /\ log' = Append(log, "WARNING: Truncating to match")
            /\ read_ids' = Truncate(read_ids, minlen)
            /\ embeddings' = Truncate(embeddings, minlen)
       ELSE UNCHANGED <<log, read_ids, embeddings>>
    /\ pc' = "prepare"
    /\ UNCHANGED <<inputs, training, sched, side, centroids, exit_code, epoch, latent, recon_errors, latent_scaled,
                   use_umap, latent_proj, cluster_labels, cluster_distance,
                   clusters_csv, novelty_csv, attempts, umap_result, pca_result,
                   cluster_calls, failed_stage>>

\* The data statistics, the tensor, the loader, the model and the optimizer.
\* embeddings.min() raises ValueError on a matrix of zero rows.
Prepare ==
    /\ pc = "prepare"
    /\ IF Len(embeddings) = 0
       THEN /\ log' = log \o <<"Loaded embeddings", "Traceback">>
            /\ Crash("prepare")
       ELSE /\ log' = log \o <<"Loaded embeddings", "Data stats", "Training VAE">>
            /\ pc' = "train"
            /\ UNCHANGED <<exit_code, failed_stage>>
    /\ UNCHANGED <<inputs, training, sched, side, centroids, embeddings, read_ids, epoch, latent, recon_errors,
                   latent_scaled, use_umap, latent_proj, cluster_labels,
                   cluster_distance, clusters_csv, novelty_csv, attempts,
                   umap_result, pca_result, cluster_calls>>

\* --------------------------------------------------------------- training
\* The progress line is printed every max(1, epochs // 10) epochs, and at the
\* first and the last epoch.
PrintsEpoch(e) ==
    LET every == IF epochs \div 10 > 1 THEN epochs \div 10 ELSE 1 IN
    e % every = 0 \/ e = 1 \/ e = epochs

\* What the training loop never assigns.
outside_loop ==
    <<inputs, sched, side, pc, exit_code, embeddings, read_ids, latent, recon_errors,
      latent_scaled, use_umap, latent_proj, cluster_labels, cluster_distance,
      clusters_csv, novelty_csv, attempts, umap_result, pca_result,
      cluster_calls, failed_stage, centroids>>

\* A variant that keeps the warm-up slope after the warm-up.
BetaUncapped(e, W, bf) ==
    IF W > 0 THEN [num |-> e * bf, den |-> W]
    ELSE [num |-> e * bf, den |-> 1]

\* A variant that counts the epochs of the warm-up from 0.
BetaZeroBased(e, W, bf) ==
    IF e <= W /\ W > 0 THEN [num |-> (e - 1) * bf, den |-> W]
    ELSE [num |-> bf, den |-> 1]

\* The linear beta schedule, as the fraction num / den:
\* float(epoch) / float(beta_warmup_epochs) * beta_final during the warm-up,
\* beta_final after it and when there is no warm-up.
Beta(e, W, bf) ==
    IF e <= W /\ W > 0 THEN [num |-> e * bf, den |-> W]
    ELSE [num |-> bf, den |-> 1]

\* The orders in which a shuffling sampler can visit n rows.
Perms(n) == {p \in [1..n -> 1..n] : \A i, j \in 1..n : p[i] = p[j] => i = j}

\* The batch sampler: consecutive runs of bs indices, the shorter last run
\* kept unless drop_last.
RECURSIVE Batches(_, _, _)
Batches(idx, bs, drop_last) ==
    IF Len(idx) = 0 THEN <<>>
    ELSE IF Len(idx) < bs THEN (IF drop_last THEN <<>> ELSE <<idx>>)
    ELSE <<SubSeq(idx, 1, bs)>> \o Batches(SubSeq(idx, bs + 1, Len(idx)), bs, drop_last)

\* A variant of the loader with drop_last=True.
LoaderDropLast(idx) == Batches(idx, batch_size, TRUE)

\* DataLoader(dataset, batch_size=batch_size, shuffle=True, drop_last=False),
\* for the order idx the sampler drew.
Loader(idx) == Batches(idx, batch_size, FALSE)

\* A row of X_all, and of a minibatch: which input row it is, and whether
\* noise was added to it.
Clean(r) == [row |-> r, noisy |-> FALSE]

\* x_batch + noise: a new tensor, every row noised.
Noised(t) == [i \in DOMAIN t |-> [t[i] EXCEPT !.noisy = TRUE]]

\* A variant that compares the reconstruction with what the model was fed.
LossTargetFedInput(x_batch, x_noisy) == x_noisy

\* vae_losses(x_batch, ...): the first argument is the reconstruction target.
LossTarget(x_batch, x_noisy) == x_batch

\* One entry of the history of the epoch: the operation, the minibatch of the
\* epoch it belongs to, and the state of the gradients it found.
Op(name) == [op |-> name, batch |-> loop.n_batches + 1, grads |-> loop.grads]

\* `for epoch in range(1, epochs + 1)`: the next epoch starts, its beta is
\* computed, the accumulators are zeroed and the loader draws a new order.
EpochBegin ==
    /\ pc = "train"
    /\ loop.at = "epoch_start"
    /\ epoch < epochs
    /\ epoch' = epoch + 1
    /\ \E idx \in Perms(Len(embeddings)) :
          loop' = [loop EXCEPT
                     !.batches = Loader(idx),
                     !.at = IF Loader(idx) = <<>> THEN "epoch_end" ELSE "fetch",
                     !.beta = Beta(epoch + 1, beta_warmup_epochs, beta_final),
                     !.total_loss = 0,
                     !.n_batches = 0,
                     !.ops = <<>>,
                     !.seen = [i \in 1..Len(embeddings) |-> 0]]
    /\ UNCHANGED <<outside_loop, updates, log>>

\* `for batch in loader`: the next minibatch and its noised copy.
Fetch ==
    /\ pc = "train"
    /\ loop.at = "fetch"
    /\ LET b == Head(loop.batches)
           x == [i \in 1..Len(b) |-> Clean(embeddings[b[i]])] IN
       loop' = [loop EXCEPT !.x_batch = x,
                            !.x_noisy = IF AddsNoise THEN Noised(x) ELSE x,
                            !.at = "zero_grad"]
    /\ UNCHANGED <<outside_loop, updates, epoch, log>>

\* optimizer.zero_grad()
ZeroGrad ==
    /\ pc = "train"
    /\ loop.at = "zero_grad"
    /\ loop' = [loop EXCEPT !.grads = "zero",
                            !.ops = Append(@, Op("zero_grad")),
                            !.at = "forward"]
    /\ UNCHANGED <<outside_loop, updates, epoch, log>>

\* x_recon, mu, logvar = vae(x_noisy)
Forward ==
    /\ pc = "train"
    /\ loop.at = "forward"
    /\ loop' = [loop EXCEPT !.fwd_input = loop.x_noisy,
                            !.ops = Append(@, Op("forward")),
                            !.at = "loss"]
    /\ UNCHANGED <<outside_loop, updates, epoch, log>>

\* recon_loss, kld, _ = vae_losses(x_batch, ...); loss = recon_loss + beta * kld
ComputeLoss ==
    /\ pc = "train"
    /\ loop.at = "loss"
    /\ \E l \in 0..MaxLoss :
          loop' = [loop EXCEPT !.loss_target = LossTarget(loop.x_batch, loop.x_noisy),
                               !.loss = l,
                               !.ops = Append(@, Op("loss")),
                               !.at = "backward"]
    /\ UNCHANGED <<outside_loop, updates, epoch, log>>

\* A variant that goes from backpropagation straight to the update.
BackwardSkipsClip ==
    /\ pc = "train"
    /\ loop.at = "backward"
    /\ loop' = [loop EXCEPT !.grads = "raw",
                            !.ops = Append(@, Op("backward")),
                            !.at = "step"]
    /\ UNCHANGED <<outside_loop, updates, epoch, log>>

\* loss.backward()
Backward ==
    /\ pc = "train"
    /\ loop.at = "backward"
    /\ loop' = [loop EXCEPT !.grads = "raw",
                            !.ops = Append(@, Op("backward")),
                            !.at = "clip"]
    /\ UNCHANGED <<outside_loop, updates, epoch, log>>

\* torch.nn.utils.clip_grad_norm_(vae.parameters(), max_norm=5.0)
ClipGrad ==
    /\ pc = "train"
    /\ loop.at = "clip"
    /\ loop' = [loop EXCEPT !.grads = "clipped",
                            !.ops = Append(@, Op("clip")),
                            !.at = "step"]
    /\ UNCHANGED <<outside_loop, updates, epoch, log>>

\* optimizer.step()
OptimizerStep ==
    /\ pc = "train"
    /\ loop.at = "step"
    /\ updates' = updates + 1
    /\ loop' = [loop EXCEPT !.ops = Append(@, Op("step")), !.at = "accumulate"]
    /\ UNCHANGED <<outside_loop, epoch, log>>

\* The accumulators of the epoch; the loader moves past the minibatch.
Accumulate ==
    /\ pc = "train"
    /\ loop.at = "accumulate"
    /\ LET b == Head(loop.batches) IN
       loop' = [loop EXCEPT
                  !.total_loss = @ + loop.loss,
                  !.n_batches = @ + 1,
                  !.seen = [i \in DOMAIN @ |->
                               @[i] + Cardinality({k \in DOMAIN b : b[k] = i})],
                  !.batches = Tail(@),
                  !.at = IF Tail(loop.batches) = <<>> THEN "epoch_end" ELSE "fetch"]
    /\ UNCHANGED <<outside_loop, updates, epoch, log>>

\* A variant that stops training as soon as an epoch has no loss left.
EpochEndStopsEarly ==
    /\ pc = "train"
    /\ loop.at = "epoch_end"
    /\ log' = IF PrintsEpoch(epoch) THEN Append(log, "Epoch") ELSE log
    /\ loop' = [loop EXCEPT !.at = "epoch_start"]
    /\ epoch' = IF loop.total_loss = 0 THEN epochs ELSE epoch
    /\ UNCHANGED <<outside_loop, updates>>

\* The averages of the epoch and its progress line; nothing reads the loss
\* to decide whether to go on.
EpochEnd ==
    /\ pc = "train"
    /\ loop.at = "epoch_end"
    /\ log' = IF PrintsEpoch(epoch) THEN Append(log, "Epoch") ELSE log
    /\ loop' = [loop EXCEPT !.at = "epoch_start"]
    /\ UNCHANGED <<outside_loop, updates, epoch>>

\* The training loop, one step at a time.
TrainEpoch ==
    \/ EpochBegin
    \/ Fetch
    \/ ZeroGrad
    \/ Forward
    \/ ComputeLoss
    \/ Backward
    \/ ClipGrad
    \/ OptimizerStep
    \/ Accumulate
    \/ EpochEnd

\* latent.std() < 1e-5: in integer coordinates, every latent row is the same.
Collapsed(m) == \A i, j \in DOMAIN m.pts : m.pts[i] = m.pts[j]

\* recon_errors[i] is computed from row i of X_all: the clean input.
ReconErrors(X) == [i \in 1..Len(X) |-> [of_row |-> X[i]]]

\* vae.reparameterize: mu + eps * std, with std as the unit and one eps per pass.
Sample(mu, eps) == [i \in DOMAIN mu |-> mu[i] + eps]

\* A variant that hands the sampled code to the later stages.
LatentOfSample(mu, z) == z

\* latent = mu_all.numpy(): the encoder mean, whatever the sample z is.
LatentOf(mu, z) == mu

\* recon_errors[i] is computed from the decoding of row i of z_sample.
SampledRecon(z) == [i \in DOMAIN z |-> [decoded_from |-> z[i]]]

\* A variant that treats a collapsed latent space as fatal.
ExtractAbortsOnCollapse ==
    /\ pc = "train"
    /\ loop.at = "epoch_start"
    /\ epoch = epochs
    /\ loop' = LoopIdle
    /\ \E p \in Vectors(Len(embeddings)) :
          /\ emb_file.identical => Collapsed(Matrix("mu", FALSE, p))
          /\ latent' = Matrix("mu", FALSE, p)
          /\ IF Collapsed(Matrix("mu", FALSE, p))
             THEN /\ log' = log \o <<"Generating latent representations", "Latent stats",
                                     "WARNING: latent space has extremely low std">>
                  /\ Crash("extract")
             ELSE /\ log' = log \o <<"Generating latent representations", "Latent stats">>
                  /\ pc' = "scale"
                  /\ UNCHANGED <<exit_code, failed_stage>>
    /\ recon_errors' = ReconErrors(embeddings)
    /\ UNCHANGED <<inputs, updates, sched, side, centroids, embeddings, read_ids, epoch, latent_scaled,
                   use_umap, latent_proj, cluster_labels, cluster_distance,
                   clusters_csv, novelty_csv, attempts, umap_result, pca_result,
                   cluster_calls>>

\* A variant that runs one more optimizer step while extracting.
ExtractUpdatesModel ==
    /\ pc = "train"
    /\ loop.at = "epoch_start"
    /\ epoch = epochs
    /\ loop' = LoopIdle
    /\ updates' = updates + 1
    /\ \E p \in Vectors(Len(embeddings)) :
          /\ emb_file.identical => Collapsed(Matrix("mu", FALSE, p))
          /\ latent' = Matrix("mu", FALSE, p)
          /\ log' = log \o <<"Generating latent representations", "Latent stats">>
                        \o (IF Collapsed(Matrix("mu", FALSE, p))
                            THEN <<"WARNING: latent space has extremely low std">>
                            ELSE <<>>)
    /\ recon_errors' = ReconErrors(embeddings)
    /\ pc' = "scale"
    /\ UNCHANGED <<inputs, sched, side, centroids, exit_code, embeddings, read_ids, epoch, latent_scaled,
                   use_umap, latent_proj, cluster_labels, cluster_distance,
                   clusters_csv, novelty_csv, attempts, umap_result, pca_result,
                   cluster_calls, failed_stage>>

\* After the last epoch: the latent means, the reconstruction errors and the
\* advisory collapse warning.  The encoder's output is any matrix of N rows
\* that gives equal rows to equal inputs.
\* The locals of the loop are not read again and are dropped from the state.
Extract ==
    /\ pc = "train"
    /\ loop.at = "epoch_start"
    /\ epoch = epochs
    /\ loop' = LoopIdle
    /\ \E p \in Vectors(Len(embeddings)), eps \in 0..MaxNoise :
          /\ emb_file.identical => Collapsed(Matrix("mu", FALSE, p))
          /\ latent' = Matrix("mu", FALSE, LatentOf(p, Sample(p, eps)))
          /\ log' = log \o <<"Generating latent representations", "Latent stats">>
                        \o (IF Collapsed(Matrix("mu", FALSE, p))
                            THEN <<"WARNING: latent space has extremely low std">>
                            ELSE <<>>)
    /\ recon_errors' = ReconErrors(embeddings)
    /\ pc' = "scale"
    /\ UNCHANGED <<inputs, updates, sched, side, centroids, exit_code, embeddings, read_ids, epoch, latent_scaled,
                   use_umap, latent_proj, cluster_labels, cluster_distance,
                   clusters_csv, novelty_csv, attempts, umap_result, pca_result,
                   cluster_calls, failed_stage>>

\* ---------------------------------------------------------- standardization
RECURSIVE SumOver(_, _)
SumOver(p, S) ==
    IF S = {} THEN 0
    ELSE LET i == CHOOSE k \in S : TRUE IN p[i] + SumOver(p, S \ {i})

\* StandardScaler().fit_transform: (x - mean) / std per column, std taken as 1
\* when it is 0.  Coordinates are kept as integers in units of std / N:
\* N * x - sum(x), a positive multiple of the standardized value.
Standardize(m) ==
    LET n == Len(m.pts) IN
    Matrix("scaled", m.nan, [i \in 1..n |-> n * m.pts[i] - SumOver(m.pts, 1..n)])

\* A variant that goes from standardization straight to clustering.
ScaleSkipsReduction ==
    /\ pc = "scale"
    /\ latent_scaled' = Standardize(latent)
    /\ latent_proj' = NoMatrix
    /\ use_umap' = has_umap
    /\ pc' = "cluster"
    /\ UNCHANGED <<inputs, training, sched, side, centroids, exit_code, log, embeddings, read_ids, epoch, latent,
                   recon_errors, cluster_labels, cluster_distance, clusters_csv,
                   novelty_csv, attempts, umap_result, pca_result, cluster_calls,
                   failed_stage>>

\* Standardization, then latent_proj = None and use_umap = _HAS_UMAP.
Scale ==
    /\ pc = "scale"
    /\ latent_scaled' = Standardize(latent)
    /\ latent_proj' = NoMatrix
    /\ use_umap' = has_umap
    /\ pc' = "umap"
    /\ UNCHANGED <<inputs, training, sched, side, centroids, exit_code, log, embeddings, read_ids, epoch, latent,
                   recon_errors, cluster_labels, cluster_distance, clusters_csv,
                   novelty_csv, attempts, umap_result, pca_result, cluster_calls,
                   failed_stage>>

\* -------------------------------------------------- reduction fallback chain
\* Tier 1, taken when the library was imported: the projection returns a matrix.
UmapOk ==
    /\ pc = "umap"
    /\ use_umap
    /\ \E p \in Vectors(Len(latent_scaled.pts)) :
          latent_proj' = Matrix("umap", FALSE, p)
    /\ log' = log \o <<"Projecting latent space with UMAP", "UMAP output shape">>
    /\ attempts' = Append(attempts, "umap")
    /\ umap_result' = "ok"
    /\ pc' = "pca"
    /\ UNCHANGED <<inputs, training, sched, side, centroids, exit_code, embeddings, read_ids, epoch, latent,
                   recon_errors, latent_scaled, use_umap, cluster_labels,
                   cluster_distance, clusters_csv, novelty_csv, pca_result,
                   cluster_calls, failed_stage>>

\* Tier 1 returns, without raising, a matrix of NaN: nothing in the try block
\* looks at the values, so this is handled exactly as a success.
UmapNan ==
    /\ pc = "umap"
    /\ use_umap
    /\ latent_proj' = Matrix("umap", TRUE, Zeros(Len(latent_scaled.pts)))
    /\ log' = log \o <<"Projecting latent space with UMAP", "UMAP output shape">>
    /\ attempts' = Append(attempts, "umap")
    /\ umap_result' = "nan"
    /\ pc' = "pca"
    /\ UNCHANGED <<inputs, training, sched, side, centroids, exit_code, embeddings, read_ids, epoch, latent,
                   recon_errors, latent_scaled, use_umap, cluster_labels,
                   cluster_distance, clusters_csv, novelty_csv, pca_result,
                   cluster_calls, failed_stage>>

\* Tier 1 raises: the handler reports it and clears use_umap.
UmapRaise ==
    /\ pc = "umap"
    /\ use_umap
    /\ log' = log \o <<"Projecting latent space with UMAP",
                       "WARNING: UMAP failed. Falling back to PCA.">>
    /\ use_umap' = FALSE
    /\ attempts' = Append(attempts, "umap")
    /\ umap_result' = "raised"
    /\ pc' = "pca"
    /\ UNCHANGED <<inputs, training, sched, side, centroids, exit_code, embeddings, read_ids, epoch, latent,
                   recon_errors, latent_scaled, latent_proj, cluster_labels,
                   cluster_distance, clusters_csv, novelty_csv, pca_result,
                   cluster_calls, failed_stage>>

\* The library is missing (the import failed silently): tier 1 is skipped
\* and nothing is printed.
UmapUnavailable ==
    /\ pc = "umap"
    /\ ~use_umap
    /\ umap_result' = "unavailable"
    /\ pc' = "pca"
    /\ UNCHANGED <<inputs, training, sched, side, centroids, exit_code, log, embeddings, read_ids, epoch, latent,
                   recon_errors, latent_scaled, use_umap, latent_proj,
                   cluster_labels, cluster_distance, clusters_csv, novelty_csv,
                   attempts, pca_result, cluster_calls, failed_stage>>

UmapTier ==
    \/ UmapOk
    \/ UmapNan
    \/ UmapRaise
    \/ UmapUnavailable

\* A variant that runs the linear tier unconditionally.
NeedPcaAlways(u, proj) == TRUE

\* if not use_umap or latent_proj is None
NeedPca(u, proj) == ~u \/ proj = NoMatrix

\* Tier 2 is not entered.
PcaSkip ==
    /\ pc = "pca"
    /\ ~NeedPca(use_umap, latent_proj)
    /\ pc' = "cluster"
    /\ UNCHANGED <<inputs, training, sched, side, centroids, exit_code, log, embeddings, read_ids, epoch, latent,
                   recon_errors, latent_scaled, use_umap, latent_proj,
                   cluster_labels, cluster_distance, clusters_csv, novelty_csv,
                   attempts, umap_result, pca_result, cluster_calls, failed_stage>>

\* PCA(n_components).fit_transform on the one-column model matrix: the centred
\* column along its only axis, whose sign the solver fixes (s is 1 or -1).
\* latent_scaled is centred already.
PcaProject(scaled, s) ==
    Matrix("pca", FALSE, [i \in 1..Len(scaled.pts) |-> s * scaled.pts[i]])

\* np.isnan(explained): the variance ratio is 0/0 when the rows do not vary.
ExplainedIsNaN(scaled) == Collapsed(scaled)

\* Tier 2 returns a matrix whose explained variance is a number.
PcaOk ==
    /\ pc = "pca"
    /\ NeedPca(use_umap, latent_proj)
    /\ ~ExplainedIsNaN(latent_scaled)
    /\ \E s \in {1, -1} : latent_proj' = PcaProject(latent_scaled, s)
    /\ log' = log \o <<"Projecting latent space with PCA", "PCA explained variance">>
    /\ attempts' = Append(attempts, "pca")
    /\ pca_result' = "ok"
    /\ pc' = "cluster"
    /\ UNCHANGED <<inputs, training, sched, side, centroids, exit_code, embeddings, read_ids, epoch, latent,
                   recon_errors, latent_scaled, use_umap, cluster_labels,
                   cluster_distance, clusters_csv, novelty_csv, umap_result,
                   cluster_calls, failed_stage>>

\* A variant whose handler leaves the failed projection in latent_proj.
PcaFallbackKeepsPartial(scaled) == Matrix("pca", TRUE, Zeros(Len(scaled.pts)))

\* What the handler of tier 2 leaves in latent_proj: latent_scaled.
PcaFallback(scaled) == scaled

\* Tier 2 raises, or its explained variance is NaN and main() raises
\* ValueError itself: the handler reports it and takes the scaled latent.
PcaFail ==
    /\ pc = "pca"
    /\ NeedPca(use_umap, latent_proj)
    /\ \E why \in {"raised", "nan"} :
          /\ why = "nan" => ExplainedIsNaN(latent_scaled)
          /\ pca_result' = why
    /\ latent_proj' = PcaFallback(latent_scaled)
    /\ log' = log \o <<"Projecting latent space with PCA",
                       "WARNING: PCA failed. Falling back to scaled latent without PCA.">>
    /\ attempts' = attempts \o <<"pca", "latent">>
    /\ pc' = "cluster"
    /\ UNCHANGED <<inputs, training, sched, side, centroids, exit_code, embeddings, read_ids, epoch, latent,
                   recon_errors, latent_scaled, use_umap, cluster_labels,
                   cluster_distance, clusters_csv, novelty_csv, umap_result,
                   cluster_calls, failed_stage>>

PcaTier ==
    \/ PcaSkip
    \/ PcaOk
    \/ PcaFail

\* -------------------------------------------------------------- clustering
Labels == NoiseLabel..MaxLabel

\* HDBSCAN numbers the clusters it selects 0, 1, ..., k-1.
Contiguous(l) ==
    \A c \in 0..MaxLabel :
        (\E i \in DOMAIN l : l[i] = c) => \A b \in 0..c : \E i \in DOMAIN l : l[i] = b

\* A variant that writes the cluster table as soon as the labels exist.
ClusterOkWritesTable ==
    /\ pc = "cluster"
    /\ \E l \in [1..Len(latent_proj.pts) -> Labels] :
          /\ Contiguous(l)
          /\ cluster_labels' = l
          /\ clusters_csv' = [written |-> TRUE,
                             rows |-> [i \in 1..Len(read_ids) |->
                                         [read_id |-> read_ids[i], cluster_id |-> l[i]]]]
    /\ log' = Append(log, "Clustering with HDBSCAN")
    /\ cluster_calls' = cluster_calls + 1
    /\ pc' = "score"
    /\ UNCHANGED <<inputs, training, sched, side, centroids, exit_code, embeddings, read_ids, epoch, latent,
                   recon_errors, latent_scaled, use_umap, latent_proj,
                   cluster_distance, novelty_csv, attempts,
                   umap_result, pca_result, failed_stage>>

\* fit_predict returns one label per row.
ClusterOk ==
    /\ pc = "cluster"
    /\ \E l \in [1..Len(latent_proj.pts) -> Labels] :
          /\ Contiguous(l)
          /\ cluster_labels' = l
    /\ log' = Append(log, "Clustering with HDBSCAN")
    /\ cluster_calls' = cluster_calls + 1
    /\ pc' = "score"
    /\ UNCHANGED <<inputs, training, sched, side, centroids, exit_code, embeddings, read_ids, epoch, latent,
                   recon_errors, latent_scaled, use_umap, latent_proj,
                   cluster_distance, clusters_csv, novelty_csv, attempts,
                   umap_result, pca_result, failed_stage>>

\* A variant that, when fit_predict raises, labels every read as noise and
\* goes on.
ClusterRaiseFallsBack ==
    /\ pc = "cluster"
    /\ cluster_labels' = [i \in 1..Len(latent_proj.pts) |-> NoiseLabel]
    /\ log' = Append(log, "Clustering with HDBSCAN")
    /\ cluster_calls' = cluster_calls + 1
    /\ failed_stage' = "cluster"
    /\ pc' = "score"
    /\ UNCHANGED <<inputs, training, sched, side, centroids, exit_code, embeddings, read_ids, epoch, latent,
                   recon_errors, latent_scaled, use_umap, latent_proj,
                   cluster_distance, clusters_csv, novelty_csv, attempts,
                   umap_result, pca_result>>

\* fit_predict raises: nothing catches it.
ClusterRaise ==
    /\ pc = "cluster"
    /\ log' = log \o <<"Clustering with HDBSCAN", "Traceback">>
    /\ cluster_calls' = cluster_calls + 1
    /\ Crash("cluster")
    /\ UNCHANGED <<inputs, training, sched, side, centroids, embeddings, read_ids, epoch, latent, recon_errors,
                   latent_scaled, use_umap, latent_proj, cluster_labels,
                   cluster_distance, clusters_csv, novelty_csv, attempts,
                   umap_result, pca_result>>

Cluster ==
    \/ ClusterOk
    \/ ClusterRaise

\* ---------------------------------------------------------- novelty scoring
\* A variant without the filter: set(cluster_labels).
AllLabels(labels) == {labels[i] : i \in DOMAIN labels}

\* [c for c in set(cluster_labels) if c != -1]
NonNoiseLabels(labels) == {labels[i] : i \in DOMAIN labels} \ {NoiseLabel}

\* A variant that counts the noise reads into every cluster.
MembersWithNoise(labels, c) == {i \in DOMAIN labels : labels[i] \in {c, NoiseLabel}}

\* cluster_labels == c
Members(labels, c) == {i \in DOMAIN labels : labels[i] = c}

\* latent_proj[cluster_labels == c].mean(axis=0), as the fraction num / den.
Centroid(pts, labels, c) ==
    [num |-> SumOver(pts, Members(labels, c)),
     den |-> Cardinality(Members(labels, c))]

Centroids(pts, labels) ==
    [c \in NonNoiseLabels(labels) |-> Centroid(pts, labels, c)]

\* Euclidean distance of coordinate x to a centroid, as a fraction.
DistTo(x, cen) == [num |-> Abs(x * cen.den - cen.num), den |-> cen.den]

FracLeq(a, b) == a.num * b.den <= b.num * a.den

\* A variant that takes distances.max(axis=1).
MinDistFarthest(x, cens) ==
    LET ds == {DistTo(x, cens[c]) : c \in DOMAIN cens} IN
    CHOOSE d \in ds : \A e \in ds : FracLeq(e, d)

\* distances.min(axis=1) for one row
MinDist(x, cens) ==
    LET ds == {DistTo(x, cens[c]) : c \in DOMAIN cens} IN
    CHOOSE d \in ds : \A e \in ds : FracLeq(d, e)

\* np.inf
Inf == [inf |-> TRUE, num |-> 0, den |-> 1]

Finite(d) == [inf |-> FALSE, num |-> d.num, den |-> d.den]

ClusterDistance(pts, labels) ==
    IF Cardinality(NonNoiseLabels(labels)) > 0
    THEN [i \in 1..Len(pts) |-> Finite(MinDist(pts[i], Centroids(pts, labels)))]
    ELSE [i \in 1..Len(pts) |-> Inf]

\* pairwise_distances raises ValueError on an input that holds NaN.
ScoreRaises == latent_proj.nan /\ NonNoiseLabels(cluster_labels) # {}

Score ==
    /\ pc = "score"
    /\ IF ScoreRaises
       THEN /\ log' = Append(log, "Traceback")
            /\ Crash("score")
            /\ UNCHANGED <<centroids, cluster_distance>>
       ELSE /\ centroids' = Centroids(latent_proj.pts, cluster_labels)
            /\ cluster_distance' = ClusterDistance(latent_proj.pts, cluster_labels)
            /\ log' = Append(log, "Clustering results")
            /\ pc' = "save_clusters"
            /\ UNCHANGED <<exit_code, failed_stage>>
    /\ UNCHANGED <<inputs, training, sched, side, embeddings, read_ids, epoch, latent, recon_errors,
                   latent_scaled, use_umap, latent_proj, cluster_labels,
                   clusters_csv, novelty_csv, attempts, umap_result, pca_result,
                   cluster_calls>>

\* ------------------------------------------------------------------- save
\* pd.DataFrame({"read_id": read_ids, "cluster_id": cluster_labels})
ClusterRows(ids, labels) ==
    [i \in 1..Len(ids) |-> [read_id |-> ids[i], cluster_id |-> labels[i]]]

\* A variant that writes the identifiers in reverse order.
NoveltyRowsReversed(ids, re, cd) ==
    [i \in 1..Len(ids) |->
        [read_id |-> ids[Len(ids) + 1 - i], recon_error |-> re[i],
         cluster_distance |-> cd[i]]]

\* pd.DataFrame({"read_id": ..., "recon_error": ..., "cluster_distance": ...})
NoveltyRows(ids, re, cd) ==
    [i \in 1..Len(ids) |->
        [read_id |-> ids[i], recon_error |-> re[i], cluster_distance |-> cd[i]]]

SaveClusters ==
    /\ pc = "save_clusters"
    /\ log' = Append(log, "Saving outputs")
    /\ clusters_csv' = [written |-> TRUE, rows |-> ClusterRows(read_ids, cluster_labels)]
    /\ pc' = "save_novelty"
    /\ UNCHANGED <<inputs, training, sched, side, centroids, exit_code, embeddings, read_ids, epoch, latent,
                   recon_errors, latent_scaled, use_umap, latent_proj,
                   cluster_labels, cluster_distance, novelty_csv, attempts,
                   umap_result, pca_result, cluster_calls, failed_stage>>

SaveNovelty ==
    /\ pc = "save_novelty"
    /\ novelty_csv' = [written |-> TRUE,
                       rows |-> NoveltyRows(read_ids, recon_errors, cluster_distance)]
    /\ log' = Append(log, "Complete")
    /\ pc' = "done"
    /\ UNCHANGED <<inputs, training, sched, side, centroids, exit_code, embeddings, read_ids, epoch, latent,
                   recon_errors, latent_scaled, use_umap, latent_proj,
                   cluster_labels, cluster_distance, clusters_csv, attempts,
                   umap_result, pca_result, cluster_calls, failed_stage>>

Next ==
    \/ LoadEmbeddings
    \/ LoadIds
    \/ Align
    \/ Prepare
    \/ TrainEpoch
    \/ Extract
    \/ Scale
    \/ UmapTier
    \/ PcaTier
    \/ Cluster
    \/ Score
    \/ SaveClusters
    \/ SaveNovelty

Spec == Init /\ [][Next]_vars

\* ------------------------------------------------- the training loop alone
\* The state in which training starts for an input of n rows that came
\* without a read-identifier table.
TrainInit ==
    /\ \E n \in 1..MaxTrainN :
          /\ emb_file = [status |-> "ok", rows |-> [k \in 1..n |-> k],
                         identical |-> n = 1]
          /\ embeddings = [k \in 1..n |-> k]
          /\ read_ids = DefaultIds(n)
    /\ ids_file = [status |-> "absent", ids |-> <<>>]
    /\ has_umap \in BOOLEAN
    /\ pc = "train"
    /\ exit_code = 0
    /\ log = <<"Loading embeddings", "WARNING: dedup_counts.csv not found",
               "Loaded embeddings", "Data stats", "Training VAE">>
    /\ epoch = 0
    /\ latent = NoMatrix
    /\ recon_errors = <<>>
    /\ latent_scaled = NoMatrix
    /\ use_umap = FALSE
    /\ latent_proj = NoMatrix
    /\ cluster_labels = <<>>
    /\ centroids = <<>>
    /\ cluster_distance = <<>>
    /\ clusters_csv = NoTable
    /\ novelty_csv = NoTable
    /\ attempts = <<>>
    /\ umap_result = "not run"
    /\ pca_result = "not run"
    /\ cluster_calls = 0
    /\ failed_stage = "none"
    /\ loop = LoopIdle
    /\ updates = 0
    /\ sched = NoSchedule
    /\ Aside

TrainNext ==
    \/ TrainEpoch
    \/ Extract

\* The loop runs in one thread that nothing suspends: a step that can be taken
\* is taken.
TrainSpec == TrainInit /\ [][TrainNext]_vars /\ WF_vars(TrainNext)

\* ------------------------------------------------- the beta schedule alone
\* No run of main() is in progress.
Parked ==
    /\ emb_file = [status |-> "nopath", rows |-> <<>>, identical |-> FALSE]
    /\ ids_file = [status |-> "absent", ids |-> <<>>]
    /\ has_umap = FALSE
    /\ pc = "parked"
    /\ exit_code = 0
    /\ log = <<>>
    /\ embeddings = <<>>
    /\ read_ids = <<>>
    /\ epoch = 0
    /\ latent = NoMatrix
    /\ recon_errors = <<>>
    /\ latent_scaled = NoMatrix
    /\ use_umap = FALSE
    /\ latent_proj = NoMatrix
    /\ cluster_labels = <<>>
    /\ centroids = <<>>
    /\ cluster_distance = <<>>
    /\ clusters_csv = NoTable
    /\ novelty_csv = NoTable
    /\ attempts = <<>>
    /\ umap_result = "not run"
    /\ pca_result = "not run"
    /\ cluster_calls = 0
    /\ failed_stage = "none"
    /\ loop = LoopIdle
    /\ updates = 0

\* A configuration: warm-up W, epoch budget E and final weight bf.
BetaInit ==
    /\ Parked
    /\ Aside
    /\ \E W \in 0..MaxW, E \in 1..MaxE, bf \in 1..MaxBetaFinal :
          sched = [W |-> W, E |-> E, bf |-> bf, hist |-> <<>>]

\* The schedule line of the next epoch of `range(1, epochs + 1)`.
BetaStep ==
    /\ Len(sched.hist) < sched.E
    /\ sched' = [sched EXCEPT
                   !.hist = Append(@, Beta(Len(@) + 1, sched.W, sched.bf))]
    /\ UNCHANGED <<inputs, training, centroids, side, pc, exit_code, log, embeddings,
                   read_ids, epoch, latent, recon_errors, latent_scaled, use_umap,
                   latent_proj, cluster_labels, cluster_distance, clusters_csv,
                   novelty_csv, attempts, umap_result, pca_result, cluster_calls,
                   failed_stage>>

BetaNext == BetaStep

BetaSpec == BetaInit /\ [][BetaNext]_vars

\* ------------------------------------------------- novelty scoring alone
\* The clusterer has returned: any projected matrix of up to MaxScoreN rows
\* and any labelling of its rows, the rest of the run left aside.
ScoreInit ==
    /\ \E n \in 1..MaxScoreN :
          /\ \E p \in Vectors(n) : latent_proj = Matrix("umap", FALSE, p)
          /\ \E l \in [1..n -> Labels] : Contiguous(l) /\ cluster_labels = l
    /\ pc = "score"
    /\ emb_file = [status |-> "nopath", rows |-> <<>>, identical |-> FALSE]
    /\ ids_file = [status |-> "absent", ids |-> <<>>]
    /\ has_umap = TRUE
    /\ exit_code = 0
    /\ log = <<>>
    /\ embeddings = <<>>
    /\ read_ids = <<>>
    /\ epoch = 0
    /\ latent = NoMatrix
    /\ recon_errors = <<>>
    /\ latent_scaled = NoMatrix
    /\ use_umap = TRUE
    /\ centroids = <<>>
    /\ cluster_distance = <<>>
    /\ clusters_csv = NoTable
    /\ novelty_csv = NoTable
    /\ attempts = <<>>
    /\ umap_result = "not run"
    /\ pca_result = "not run"
    /\ cluster_calls = 0
    /\ failed_stage = "none"
    /\ loop = LoopIdle
    /\ updates = 0
    /\ sched = NoSchedule
    /\ Aside

ScoreNext == Score

ScoreSpec == ScoreInit /\ [][ScoreNext]_vars

\* --------------------------------------- two passes over a trained model
vae_run == <<inputs, training, sched, centroids, pc, exit_code, log, embeddings,
             read_ids, epoch, latent, recon_errors, latent_scaled, use_umap,
             latent_proj, cluster_labels, cluster_distance, clusters_csv,
             novelty_csv, attempts, umap_result, pca_result, cluster_calls,
             failed_stage>>

\* The outputs of a pass before its first stage.
PassBlank ==
    [eps |-> 0, latent |-> <<>>, recon |-> <<>>, scaled |-> NoMatrix,
     proj |-> NoMatrix, labels |-> <<>>, clusters |-> <<>>, novelty |-> <<>>]

\* Training is over: the encoder maps the N rows to the means mu, and the
\* lines after the loop are run twice over these parameters and this input.
PassInit ==
    /\ Parked
    /\ sched = NoSchedule
    /\ orch = <<>>
    /\ trim = <<>>
    /\ prep = <<>>
    /\ \E n \in 1..MaxN : \E mu \in Vectors(n) :
          pass = [at |-> "encode", mu |-> mu, cur |-> PassBlank, done |-> <<>>]

\* encode, reparameterize, decode: each pass draws its own noise.  The
\* standardization of the latent matrix follows.
PassEncode ==
    /\ pass.at = "encode"
    /\ Len(pass.done) < 2
    /\ \E eps \in 0..MaxNoise :
          LET z == Sample(pass.mu, eps) IN
          pass' = [pass EXCEPT !.at = "reduce",
                               !.cur = [PassBlank EXCEPT
                                          !.eps = eps,
                                          !.latent = LatentOf(pass.mu, z),
                                          !.scaled = Standardize(Matrix("mu", FALSE,
                                                         LatentOf(pass.mu, z))),
                                          !.recon = SampledRecon(z)]]
    /\ UNCHANGED <<vae_run, orch, trim, prep>>

\* The reduction runs with random_state=42: on the input of an earlier pass
\* it returns what it returned then, on a new input any matrix of N rows.
PassReduce ==
    /\ pass.at = "reduce"
    /\ LET seen == {k \in DOMAIN pass.done : pass.done[k].scaled = pass.cur.scaled}
           results == IF seen = {} THEN Vectors(Len(pass.mu))
                      ELSE {pass.done[k].proj.pts : k \in seen}
       IN \E p \in results :
             pass' = [pass EXCEPT !.at = "cluster",
                                  !.cur.proj = Matrix("umap", FALSE, p)]
    /\ UNCHANGED <<vae_run, orch, trim, prep>>

\* fit_predict draws no random numbers: the same input gets the same labels.
\* Scoring and the two tables of the pass follow.
PassCluster ==
    /\ pass.at = "cluster"
    /\ \E l \in LET seen == {k \in DOMAIN pass.done : pass.done[k].proj = pass.cur.proj}
             IN IF seen = {}
                THEN {f \in [1..Len(pass.mu) -> Labels] : Contiguous(f)}
                ELSE {pass.done[k].labels : k \in seen} :
          /\ LET ids == DefaultIds(Len(pass.mu))
                 out == [pass.cur EXCEPT
                           !.labels = l,
                           !.clusters = ClusterRows(ids, l),
                           !.novelty = NoveltyRows(ids, pass.cur.recon,
                                          ClusterDistance(pass.cur.proj.pts, l))]
             IN pass' = [pass EXCEPT !.at = "encode", !.cur = PassBlank,
                                     !.done = Append(@, out)]
    /\ UNCHANGED <<vae_run, orch, trim, prep>>

PassNext ==
    \/ PassEncode
    \/ PassReduce
    \/ PassCluster

PassSpec == PassInit /\ [][PassNext]_vars

\* ------------------------------------------- run_pipeline.py: orchestrator
\* The files whose existence the orchestrator verifies.
OutputFiles ==
    {"cleaned_fasta", "dedup_csv", "embeddings_npy", "clusters_csv", "novelty_csv"}

\* The files checked after each step; none after the two optional steps.
Expected(n) ==
    CASE n = 1 -> {"cleaned_fasta", "dedup_csv"}
      [] n = 2 -> {"embeddings_npy"}
      [] n = 3 -> {"clusters_csv", "novelty_csv"}
      [] OTHER -> {}

\* A variant that also counts the phylogeny step among the core steps.
CoreThroughPhylo(n) == n <= 4

\* Steps 1-3 end the run when they fail; steps 4 and 5 only warn.
Core(n) == n <= 3

\* A variant that runs every non-skipped step whatever the resume point.
SelectedIgnoresResume(n, o) ==
    /\ n = 4 => ~o.skip_phylo
    /\ n = 5 => ~o.skip_extract

\* The condition in front of step n: `not args.resume_from or
\* args.resume_from <= n`, and for steps 4 and 5 the skip flag.  A resume
\* point of 0 stands for None.
Selected(n, o) ==
    /\ n = 4 => ~o.skip_phylo
    /\ n = 5 => ~o.skip_extract
    /\ o.resume = 0 \/ o.resume <= n

\* A variant that reports success whatever the exit status.
RunCommandIgnoresExit(code) == TRUE

\* run_command: check=True raises CalledProcessError on a nonzero status,
\* and the handler returns False.
RunCommand(code) == code = 0

\* The step after n; after step 5 the summary.
Advance(o, n) ==
    IF n = 5 THEN [o EXCEPT !.at = "summary", !.step = 6]
    ELSE [o EXCEPT !.at = "select", !.step = n + 1]

\* sys.exit(1)
OrchExit(o) == [o EXCEPT !.at = "exit", !.exit_code = 1]

\* parse_args has returned: any resume point, any skip flags, an input path
\* that exists or not, and any outputs of an earlier run left on disk.
OrchInit ==
    /\ Parked
    /\ sched = NoSchedule
    /\ pass = <<>>
    /\ trim = <<>>
    /\ prep = <<>>
    /\ \E r \in 0..5, sp \in BOOLEAN, se \in BOOLEAN, ie \in BOOLEAN,
          f \in SUBSET OutputFiles :
          orch = [at |-> "validate", step |-> 0, resume |-> r, skip_phylo |-> sp,
                  skip_extract |-> se, input_exists |-> ie, files |-> f,
                  ran |-> <<>>, exit_code |-> 0, log |-> <<>>]

\* Validate input file, then set up the paths and print the header.
OrchValidate ==
    /\ orch.at = "validate"
    /\ orch' = IF orch.input_exists
               THEN [orch EXCEPT !.at = "select", !.step = 1]
               ELSE OrchExit([orch EXCEPT !.log = Append(@, "Input file does not exist")])
    /\ UNCHANGED <<vae_run, pass, trim, prep>>

\* The condition in front of a step is false: the step is passed over.
OrchPassOver ==
    /\ orch.at = "select"
    /\ ~Selected(orch.step, orch)
    /\ orch' = Advance(orch, orch.step)
    /\ UNCHANGED <<vae_run, pass, trim, prep>>

\* print_step and run_command of a step.  The command ends with any status
\* and leaves any of the step's own output files on disk.
OrchRun ==
    /\ orch.at = "select"
    /\ Selected(orch.step, orch)
    /\ \E code \in 0..MaxExit, left \in SUBSET Expected(orch.step) :
          LET n == orch.step
              o == [orch EXCEPT !.ran = Append(@, [step |-> n, code |-> code]),
                                !.files = (@ \ Expected(n)) \cup left]
          IN orch' =
               IF RunCommand(code)
               THEN (IF Core(n) THEN [o EXCEPT !.at = "verify"] ELSE Advance(o, n))
               ELSE (IF Core(n) THEN OrchExit(o)
                     ELSE Advance([o EXCEPT !.log = Append(@, <<"failed but continuing", n>>)], n))
    /\ UNCHANGED <<vae_run, pass, trim, prep>>

\* check_file_exists on each expected output of a core step.
OrchVerify ==
    /\ orch.at = "verify"
    /\ orch' = IF Expected(orch.step) \subseteq orch.files
               THEN Advance(orch, orch.step)
               ELSE OrchExit([orch EXCEPT !.log = Append(@, <<"not found", orch.step>>)])
    /\ UNCHANGED <<vae_run, pass, trim, prep>>

\* The completion summary; main returns and the interpreter exits with 0.
OrchSummary ==
    /\ orch.at = "summary"
    /\ orch' = [orch EXCEPT !.at = "done", !.log = Append(@, "PIPELINE COMPLETED SUCCESSFULLY")]
    /\ UNCHANGED <<vae_run, pass, trim, prep>>

OrchNext ==
    \/ OrchValidate
    \/ OrchPassOver
    \/ OrchRun
    \/ OrchVerify
    \/ OrchSummary

OrchSpec == OrchInit /\ [][OrchNext]_vars

\* ------------------------------------------ preprocess.py: end trimming
\* sum(qual[from:from+window]); `from` counts from 0 and the slice stops at
\* the end of the list.
RECURSIVE WindowSum(_, _, _)
WindowSum(qual, from, window) ==
    IF window <= 0 \/ from >= Len(qual) THEN 0
    ELSE qual[from + 1] + WindowSum(qual, from + 1, window - 1)

\* A variant that looks at the first base of the window only.
WindowOkFirstBase(qual, from, window, min_avg_q) == qual[from + 1] >= min_avg_q

\* sum(qual[from:from+window]) / window >= min_avg_q, for a window >= 1.
WindowOk(qual, from, window, min_avg_q) ==
    WindowSum(qual, from, window) >= min_avg_q * window

\* The loop `while left <= right - window`: the value of left after it.
RECURSIVE TrimLeft(_, _, _, _, _)
TrimLeft(qual, left, right, window, min_avg_q) ==
    IF left <= right - window
    THEN (IF WindowOk(qual, left, window, min_avg_q) THEN left
          ELSE TrimLeft(qual, left + 1, right, window, min_avg_q))
    ELSE left

\* The loop `while right - window >= left`: the value of right after it.
RECURSIVE TrimRight(_, _, _, _, _)
TrimRight(qual, left, right, window, min_avg_q) ==
    IF right - window >= left
    THEN (IF WindowOk(qual, right - window, window, min_avg_q) THEN right
          ELSE TrimRight(qual, left, right - 1, window, min_avg_q))
    ELSE right

\* s[left:right] for 0 <= left and right <= len(qual); a shorter s is cut at
\* its end.
Slice(s, left, right) == SubSeq(s, left + 1, Min(right, Len(s)))

\* sliding_window_trim, with the two indices it slices at.
sliding_window_trim(seq, qual, window, min_avg_q) ==
    IF Len(qual) = 0 \/ Len(qual) < window
    THEN [seq |-> seq, qual |-> qual, left |-> 0, right |-> Len(qual)]
    ELSE LET left == TrimLeft(qual, 0, Len(qual), window, min_avg_q)
             right == TrimRight(qual, left, Len(qual), window, min_avg_q)
         IN [seq |-> Slice(seq, left, right), qual |-> Slice(qual, left, right),
             left |-> left, right |-> right]

\* A call of sliding_window_trim: any quality list, a sequence of as many
\* bases (each named by its position), any window >= 1 and any threshold.
TrimInit ==
    /\ Parked
    /\ sched = NoSchedule
    /\ pass = <<>>
    /\ orch = <<>>
    /\ prep = <<>>
    /\ \E n \in 0..MaxQualLen :
       \E qual \in [1..n -> 0..MaxQ], window \in 1..MaxWindow, q \in 0..(MaxQ + 1) :
          trim = [at |-> "call", seq |-> [i \in 1..n |-> i], qual |-> qual,
                  window |-> window, min_avg_q |-> q, out |-> <<>>]

TrimApply ==
    /\ trim.at = "call"
    /\ trim' = [trim EXCEPT
                  !.at = "returned",
                  !.out = sliding_window_trim(trim.seq, trim.qual, trim.window, trim.min_avg_q)]
    /\ UNCHANGED <<vae_run, pass, orch, prep>>

TrimNext == TrimApply

TrimSpec == TrimInit /\ [][TrimNext]_vars

\* -------------------------------------------- preprocess.py: the read loop
\* The letters of a record as the file spells them.
Bases == {"a", "C"}

\* str.upper() of one letter.
Upper(b) == IF b = "a" THEN "A" ELSE b

\* average_quality(qual) < min_avg_q, with sum / len compared in integers and
\* the average of an empty list taken as 0.
BelowAverage(qual, min_avg_q) ==
    IF Len(qual) = 0 THEN 0 < min_avg_q
    ELSE WindowSum(qual, 0, Len(qual)) < min_avg_q * Len(qual)

\* A variant that sets the count of the sequence to 1.
CountReadOverwrites(counts, key) ==
    [k \in DOMAIN counts \cup {key} |-> IF k = key THEN 1 ELSE counts[k]]

\* seq_counts[key]["count"] += 1 on a defaultdict whose entries start at 0.
CountRead(counts, key) ==
    [k \in DOMAIN counts \cup {key} |->
        IF k = key THEN (IF key \in DOMAIN counts THEN counts[key] + 1 ELSE 1)
        ELSE counts[k]]

\* main has parsed its arguments and detected the file type.
PrepInit ==
    /\ Parked
    /\ sched = NoSchedule
    /\ pass = <<>>
    /\ orch = <<>>
    /\ trim = <<>>
    /\ \E ft \in {"fastq", "fasta"}, lo \in 0..MaxReadLen, hi \in 0..MaxReadLen,
          q \in 0..MaxReadQ, w \in 1..MaxReadLen :
          prep = [at |-> "loop", file_type |-> ft, min_len |-> lo, max_len |-> hi,
                  min_avg_q |-> q, window |-> w, total_reads |-> 0,
                  dropped_len |-> 0, dropped_qual |-> 0,
                  seq_counts |-> [k \in {} |-> 0], report |-> <<>>]

\* One iteration of `for rec in reader`: the next record is any read with one
\* quality value per base (FASTQ) or none (FASTA).
PrepRead ==
    /\ prep.at = "loop"
    /\ prep.total_reads < MaxReads
    /\ \E n \in 0..MaxReadLen :
       \E letters \in [1..n -> Bases], phred \in [1..n -> 0..MaxReadQ] :
          LET seq == [i \in 1..n |-> Upper(letters[i])]
              fastq == prep.file_type = "fastq"
              t == IF fastq
                   THEN sliding_window_trim(seq, phred, prep.window, prep.min_avg_q)
                   ELSE [seq |-> seq, qual |-> <<>>, left |-> 0, right |-> n]
              counted == [prep EXCEPT !.total_reads = @ + 1]
          IN /\ fastq \/ \A i \in 1..n : phred[i] = 0
             /\ prep' =
                  IF fastq /\ BelowAverage(t.qual, prep.min_avg_q)
                  THEN [counted EXCEPT !.dropped_qual = @ + 1]
                  ELSE IF Len(t.seq) < prep.min_len \/ Len(t.seq) > prep.max_len
                  THEN [counted EXCEPT !.dropped_len = @ + 1]
                  ELSE [counted EXCEPT !.seq_counts = CountRead(@, t.seq)]
    /\ UNCHANGED <<vae_run, pass, orch, trim>>

\* The reader raises on a malformed record: the handler prints the error and
\* calls sys.exit(1).
PrepParseError ==
    /\ prep.at = "loop"
    /\ prep' = [prep EXCEPT !.at = "exit"]
    /\ UNCHANGED <<vae_run, pass, orch, trim>>

\* The reader is exhausted: main returns without outputs when no sequence
\* was kept, and otherwise writes the outputs and the report.
PrepFinish ==
    /\ prep.at = "loop"
    /\ prep' =
         IF DOMAIN prep.seq_counts = {}
         THEN [prep EXCEPT !.at = "returned"]
         ELSE [prep EXCEPT
                 !.at = "done",
                 !.report = [total_reads |-> prep.total_reads,
                             kept_reads |-> prep.total_reads - prep.dropped_len
                                               - prep.dropped_qual,
                             dropped_len |-> prep.dropped_len,
                             dropped_qual |-> prep.dropped_qual,
                             unique |-> Cardinality(DOMAIN prep.seq_counts)]]
    /\ UNCHANGED <<vae_run, pass, orch, trim>>

PrepNext ==
    \/ PrepRead
    \/ PrepParseError
    \/ PrepFinish

PrepSpec == PrepInit /\ [][PrepNext]_vars

\* ============================================================== properties
\* The inputs of the run, as the properties see them.
N_in == Len(emb_file.rows)

I_in == Len(ids_file.ids)

DecimalNames == <<"0", "1", "2", "3", "4", "5", "6", "7", "8", "9">>

\* The identifier list the run starts from, and the number of rows it keeps.
SourceIds ==
    IF ids_file.status = "absent" THEN SubSeq(DecimalNames, 1, N_in) ELSE ids_file.ids

KeptRows ==
    IF ids_file.status = "absent" THEN N_in
    ELSE IF I_in < N_in THEN I_in ELSE N_in

KeptIds == SubSeq(SourceIds, 1, KeptRows)

TruncationWarning == "WARNING: Truncating to match"

Logged(msg) == \E k \in DOMAIN log : log[k] = msg

\* Both inputs were read and the alignment step has run.
Aligned ==
    /\ emb_file.status = "ok"
    /\ ids_file.status # "unreadable"
    /\ pc \notin {"load_emb", "load_ids", "align"}

Scored == pc \in {"save_clusters", "save_novelty", "done"}

Reduced ==
    \/ pc \in {"cluster", "score", "save_clusters", "save_novelty", "done"}
    \/ failed_stage \in {"cluster", "score"}

\* C1: whenever a table is written, the cluster table and the novelty table
\* have the same number of rows, row i of each carries the i-th identifier of
\* the (possibly truncated) input list, and from alignment to the end no stage
\* reorders, drops or duplicates a read.
C1_TablesAligned ==
    /\ Aligned =>
          /\ read_ids = KeptIds
          /\ embeddings = SubSeq(emb_file.rows, 1, KeptRows)
    /\ Scored =>
          /\ Len(cluster_labels) = KeptRows
          /\ Len(cluster_distance) = KeptRows
          /\ recon_errors = [i \in 1..KeptRows |-> [of_row |-> emb_file.rows[i]]]
    /\ clusters_csv.written =>
          /\ Len(clusters_csv.rows) = KeptRows
          /\ \A i \in 1..KeptRows :
                /\ clusters_csv.rows[i].read_id = KeptIds[i]
                /\ clusters_csv.rows[i].cluster_id = cluster_labels[i]
    /\ novelty_csv.written =>
          /\ clusters_csv.written
          /\ Len(novelty_csv.rows) = Len(clusters_csv.rows)
          /\ \A i \in 1..KeptRows :
                /\ novelty_csv.rows[i].read_id = KeptIds[i]
                /\ novelty_csv.rows[i].read_id = clusters_csv.rows[i].read_id
                /\ novelty_csv.rows[i].recon_error = [of_row |-> emb_file.rows[i]]
                /\ novelty_csv.rows[i].cluster_distance = cluster_distance[i]

\* A finished run over a truncated input of at least two reads.
C1_Witness ==
    /\ pc = "done"
    /\ clusters_csv.written /\ novelty_csv.written
    /\ Len(novelty_csv.rows) >= 2
    /\ ids_file.status = "ok" /\ I_in > N_in

\* C2: with an identifier table of I rows and N embedding rows, alignment
\* keeps the first min(I, N) of each, warns exactly when I # N, does not end
\* the run, and every table written has min(I, N) rows (N rows when I = N).
C2_TruncateToShorter ==
    (Aligned /\ ids_file.status = "ok") =>
        LET m == IF I_in < N_in THEN I_in ELSE N_in IN
        /\ read_ids = SubSeq(ids_file.ids, 1, m)
        /\ embeddings = SubSeq(emb_file.rows, 1, m)
        /\ Len(read_ids) = m /\ Len(embeddings) = m
        /\ Logged(TruncationWarning) <=> I_in # N_in
        /\ failed_stage # "align"
        /\ clusters_csv.written => Len(clusters_csv.rows) = m
        /\ novelty_csv.written => Len(novelty_csv.rows) = m
        /\ (I_in = N_in) => (read_ids = ids_file.ids /\ embeddings = emb_file.rows)

\* A finished run whose embedding matrix was longer than its identifier table.
C2_Witness ==
    /\ pc = "done"
    /\ ids_file.status = "ok"
    /\ I_in >= 1 /\ N_in > I_in
    /\ Logged(TruncationWarning)
    /\ Len(clusters_csv.rows) = I_in /\ Len(novelty_csv.rows) = I_in

\* C3: the novelty table's cluster_distance is the infinity sentinel in every
\* row exactly when clustering produced no label other than -1; with at least
\* one such label no row carries the sentinel; and a clustering without
\* clusters does not end the run.
C3_SentinelIffNoClusters ==
    LET real == {cluster_labels[i] : i \in DOMAIN cluster_labels} \ {-1} IN
    /\ Scored =>
          /\ (\A i \in DOMAIN cluster_distance : cluster_distance[i].inf) <=> real = {}
          /\ real # {} => \A i \in DOMAIN cluster_distance : ~cluster_distance[i].inf
    /\ novelty_csv.written =>
          /\ (\A i \in DOMAIN novelty_csv.rows :
                 novelty_csv.rows[i].cluster_distance.inf) <=> real = {}
          /\ real # {} => \A i \in DOMAIN novelty_csv.rows :
                             ~novelty_csv.rows[i].cluster_distance.inf
    /\ (failed_stage = "score") => real # {}
    /\ (pc = "exit" /\ cluster_labels # <<>>) => real # {}

\* A finished run in which every read is noise and every distance is infinite.
C3_Witness ==
    /\ pc = "done"
    /\ Len(cluster_labels) >= 2
    /\ \A i \in DOMAIN cluster_labels : cluster_labels[i] = -1
    /\ \A i \in DOMAIN novelty_csv.rows : novelty_csv.rows[i].cluster_distance.inf

\* C4: whatever the availability and the outcomes of the two projection tiers,
\* the reduction stage hands a defined matrix of N rows to clustering and never
\* ends the run; when the linear tier fails too, that matrix is exactly the
\* standardized latent matrix.
C4_ReductionNeverFatal ==
    /\ Reduced =>
          /\ latent_proj # NoMatrix
          /\ Len(latent_proj.pts) = Len(embeddings)
          /\ Len(latent_proj.pts) = KeptRows
    /\ (Reduced /\ pca_result \in {"raised", "nan"}) =>
          /\ latent_proj = latent_scaled
          /\ latent_proj = Standardize(latent)
    /\ (pc = "exit" /\ latent_scaled # NoMatrix) =>
          /\ failed_stage \in {"cluster", "score"}
          /\ cluster_calls = 1

\* Clustering is about to start after both projection tiers failed.
C4_Witness ==
    /\ pc = "cluster"
    /\ umap_result = "raised"
    /\ pca_result \in {"raised", "nan"}
    /\ latent_proj = latent_scaled
    /\ Len(latent_proj.pts) >= 2

\* C5: the tiers are tried in the order manifold, linear, unreduced; the linear
\* tier runs only if the manifold tier was unavailable or raised, never after it
\* succeeded; the unreduced latent is used only after the linear tier was tried
\* and failed.
C5_TierOrder ==
    /\ attempts \in {<<>>, <<"umap">>, <<"pca">>, <<"umap", "pca">>,
                     <<"pca", "latent">>, <<"umap", "pca", "latent">>}
    /\ (\E k \in DOMAIN attempts : attempts[k] = "pca") =>
          umap_result \in {"unavailable", "raised"}
    /\ umap_result = "ok" => pca_result = "not run"
    /\ (Reduced /\ umap_result = "ok") => latent_proj.tier = "umap"
    /\ (\E k \in DOMAIN attempts : attempts[k] = "latent") =>
          pca_result \in {"raised", "nan"}
    /\ (Reduced /\ latent_proj.tier = "scaled") =>
          /\ \E k \in DOMAIN attempts : attempts[k] = "latent"
          /\ pca_result \in {"raised", "nan"}
    /\ (Reduced /\ latent_proj.tier = "pca") => pca_result = "ok"

\* Clustering is about to start on the manifold projection; the linear tier
\* was never run.
C5_Witness ==
    /\ pc = "cluster"
    /\ umap_result = "ok"
    /\ attempts = <<"umap">>
    /\ latent_proj.tier = "umap"

\* C6: whenever the manifold tier fails (library unavailable, projection
\* raises, or projection yields NaN), the linear projection is attempted next
\* and the manifold tier's output is not the clustering input.
C6_ManifoldFailureFallsToLinear ==
    (Reduced /\ umap_result \in {"unavailable", "raised", "nan"}) =>
        /\ \E k \in DOMAIN attempts : attempts[k] = "pca"
        /\ latent_proj.tier # "umap"

\* C7: every transition from one tier to the next, the one taken because the
\* manifold library is unavailable included, is reported as a fallback event
\* before clustering starts.
C7_EveryFallbackReported ==
    Reduced =>
        /\ (\E k \in DOMAIN attempts : attempts[k] = "pca") =>
              Logged("WARNING: UMAP failed. Falling back to PCA.")
        /\ (\E k \in DOMAIN attempts : attempts[k] = "latent") =>
              Logged("WARNING: PCA failed. Falling back to scaled latent without PCA.")

\* C8: when the clustering call raises, the run ends abnormally: one call, no
\* labels, no scoring, no save, neither table written.
C8_ClusteringFailureIsFatal ==
    /\ cluster_calls <= 1
    /\ failed_stage = "cluster" =>
          /\ pc = "exit"
          /\ exit_code # 0
          /\ cluster_calls = 1
          /\ cluster_labels = <<>>
          /\ cluster_distance = <<>>
          /\ ~clusters_csv.written
          /\ ~novelty_csv.written
          /\ ~Logged("Clustering results")
          /\ ~Logged("Saving outputs")

\* The clustering call has raised.
C8_Witness ==
    /\ failed_stage = "cluster"
    /\ pc = "exit"
    /\ Len(latent_proj.pts) >= 1

\* C9: when the embedding input is missing or unreadable the process ends with
\* a nonzero status after a single load attempt, before the first epoch and
\* without writing a table.
C9_MissingEmbeddingsAbort ==
    (emb_file.status # "ok" /\ pc # "load_emb") =>
        /\ pc = "exit"
        /\ exit_code # 0
        /\ epoch = 0
        /\ embeddings = <<>>
        /\ ~Logged("Training VAE")
        /\ Cardinality({k \in DOMAIN log : log[k] = "Loading embeddings"}) <= 1
        /\ ~clusters_csv.written
        /\ ~novelty_csv.written

\* The run has ended because no embedding file was found.
C9_Witness ==
    /\ emb_file.status \in {"nopath", "missing"}
    /\ pc = "exit"
    /\ Logged("ERROR: embeddings file not found")

\* C10: without an identifier table the run goes on with the identifiers
\* "0", "1", ..., "N-1", nothing is truncated, and every table written has N
\* rows keyed by them.
C10_DefaultIdentifiers ==
    (Aligned /\ ids_file.status = "absent") =>
        /\ read_ids = SubSeq(DecimalNames, 1, N_in)
        /\ embeddings = emb_file.rows
        /\ ~Logged(TruncationWarning)
        /\ Logged("WARNING: dedup_counts.csv not found")
        /\ failed_stage \notin {"load_ids", "align"}
        /\ clusters_csv.written =>
              /\ Len(clusters_csv.rows) = N_in
              /\ \A i \in 1..N_in : clusters_csv.rows[i].read_id = DecimalNames[i]
        /\ novelty_csv.written =>
              /\ Len(novelty_csv.rows) = N_in
              /\ \A i \in 1..N_in : novelty_csv.rows[i].read_id = DecimalNames[i]

\* A finished run over two reads that had no identifier table.
C10_Witness ==
    /\ pc = "done"
    /\ ids_file.status = "absent"
    /\ N_in = 2
    /\ novelty_csv.written
    /\ novelty_csv.rows[1].read_id = "0" /\ novelty_csv.rows[2].read_id = "1"

CollapseWarning == "WARNING: latent space has extremely low std"

\* The order of the stages that follow latent extraction; a run leaves the
\* order only through the exception of clustering or of scoring.
LaterStages ==
    {<<"scale", "umap">>, <<"umap", "pca">>, <<"pca", "cluster">>,
     <<"cluster", "score">>, <<"cluster", "exit">>, <<"score", "save_clusters">>,
     <<"score", "exit">>, <<"save_clusters", "save_novelty">>,
     <<"save_novelty", "done">>}

\* ceil(a / b) for b > 0, by its defining inequalities.
Ceil(a, b) == CHOOSE k \in 0..a : (k - 1) * b < a /\ a <= k * b

\* C11: the posterior-collapse check is made only once all E epochs are over,
\* and it decides nothing but the warning: whether or not the warning is
\* printed, the step that makes the check hands over to standardization with
\* exit status 0, and from there on the run moves through reduction,
\* clustering, scoring and the two saves in that order, aborting only where
\* clustering or scoring raises.
C11_CollapseCheckIsAdvisory ==
    [][ /\ (~Logged(CollapseWarning) /\ Logged(CollapseWarning)') =>
              /\ pc = "train"
              /\ epoch = epochs
              /\ updates = epochs * Ceil(Len(embeddings), batch_size)
        /\ (pc = "train" /\ pc' # "train") =>
              /\ pc' = "scale"
              /\ exit_code' = 0
              /\ failed_stage' = "none"
              /\ (Logged(CollapseWarning)' <=> Collapsed(latent'))
        /\ (latent # NoMatrix /\ pc' # pc) =>
              /\ <<pc, pc'>> \in LaterStages
              /\ (pc' = "exit" => failed_stage' \in {"cluster", "score"})
        /\ (latent # NoMatrix => (Logged(CollapseWarning)' <=> Logged(CollapseWarning)))
      ]_vars

\* A run of two reads that printed the collapse warning and went on to write
\* both tables.
C11_Witness ==
    /\ pc = "done"
    /\ Logged(CollapseWarning)
    /\ Len(latent.pts) = 2
    /\ novelty_csv.written

\* C12: the epoch counter starts at 0, moves only at the start of an epoch and
\* only by one, and never passes E; training is left only when the counter is
\* E and every epoch has applied all its updates, whatever losses were seen;
\* and training is always left in the end.
C12_TrainingRunsEveryEpoch ==
    /\ [](epoch \in 0..epochs)
    /\ [][ /\ epoch' # epoch =>
                 /\ pc = "train" /\ loop.at = "epoch_start"
                 /\ epoch' = epoch + 1
                 /\ updates = epoch * Ceil(Len(embeddings), batch_size)
           /\ (pc = "train" /\ epoch < epochs) => pc' = "train"
           /\ (pc = "train" /\ pc' # "train") =>
                 /\ epoch = epochs
                 /\ updates = epochs * Ceil(Len(embeddings), batch_size)
         ]_vars
    /\ (pc = "train") ~> (pc = "scale" /\ epoch = epochs)

\* Training over three reads has ended: two minibatches in each of the E
\* epochs.
C12_Witness ==
    /\ pc = "scale"
    /\ epoch = epochs
    /\ Len(embeddings) = 3
    /\ updates = 2 * epochs

\* C13: over the epochs 1..E the schedule never decreases; it is beta_final
\* at every epoch after the warm-up W, and epoch / W of beta_final at every
\* epoch of the warm-up, so that with a warm-up the first epoch runs at
\* beta_final / W.
C13_BetaSchedule ==
    LET W == sched.W
        bf == sched.bf
        h == sched.hist IN
    \A e \in 1..Len(h) :
        /\ h[e].den > 0
        /\ e > W => h[e].num = bf * h[e].den
        /\ e <= W => h[e].num * W = e * bf * h[e].den
        /\ e > 1 => h[e - 1].num * h[e].den <= h[e].num * h[e - 1].den
        /\ (e = 1 /\ W > 0) => h[1].num * W = bf * h[1].den

\* A schedule with a warm-up of three epochs, tabulated past the warm-up.
C13_Witness ==
    /\ sched.W = 3
    /\ sched.bf = 2
    /\ Len(sched.hist) = 5

\* The sum over the rows 1..k that carry label c of the deviation of the row
\* from the fraction cen, in units of 1 / cen.den.
RECURSIVE DeviationSum(_, _, _, _, _)
DeviationSum(pts, labels, c, cen, k) ==
    IF k = 0 THEN 0
    ELSE DeviationSum(pts, labels, c, cen, k - 1)
         + (IF labels[k] = c THEN pts[k] * cen.den - cen.num ELSE 0)

\* d <= |x - cen| for a distance d and a centroid cen, both fractions.
AtMostDistance(d, x, cen) == d.num * cen.den <= Abs(x * cen.den - cen.num) * d.den

\* C14: scoring computes one centroid for each label other than -1 that some
\* read carries and none for -1; the centroid of a label is the mean of the
\* projected rows of the reads that carry it (as many rows as carry the
\* label, deviations summing to zero), and moving a noise read changes no
\* centroid.
C14_CentroidsAreClusterMeans ==
    Scored =>
        LET pts == latent_proj.pts
            labels == cluster_labels IN
        /\ DOMAIN centroids = {labels[i] : i \in DOMAIN labels} \ {-1}
        /\ \A c \in DOMAIN centroids :
              /\ centroids[c].den = Cardinality({i \in DOMAIN labels : labels[i] = c})
              /\ DeviationSum(pts, labels, c, centroids[c], Len(pts)) = 0
        /\ \A i \in DOMAIN labels : \A v \in 0..MaxCoord :
              labels[i] = -1 =>
                  Centroids([pts EXCEPT ![i] = v], labels) = centroids

\* Scoring is over for four reads: a cluster of two reads at different places,
\* a cluster of one read, and a noise read.
C14_Witness ==
    /\ pc = "save_clusters"
    /\ cluster_labels = <<0, 0, 1, -1>>
    /\ latent_proj.pts = <<0, 1, 1, 0>>
    /\ centroids[0] = [num |-> 1, den |-> 2]

\* C15: when some read is in a cluster, the cluster_distance of every read,
\* noise reads included, is finite and non-negative, is the distance to some
\* centroid, is no larger than the distance to any centroid, and so is no
\* larger than the distance to the centroid of the read's own cluster.
C15_DistanceToNearestCentroid ==
    (Scored /\ \E i \in DOMAIN cluster_labels : cluster_labels[i] # -1) =>
        /\ Len(cluster_distance) = Len(cluster_labels)
        /\ \A i \in DOMAIN cluster_labels :
              LET d == cluster_distance[i]
                  x == latent_proj.pts[i] IN
              /\ ~d.inf
              /\ d.num >= 0 /\ d.den > 0
              /\ \A c \in DOMAIN centroids : AtMostDistance(d, x, centroids[c])
              /\ \E c \in DOMAIN centroids :
                    d.num * centroids[c].den
                       = Abs(x * centroids[c].den - centroids[c].num) * d.den
              /\ cluster_labels[i] # -1 =>
                    AtMostDistance(d, x, centroids[cluster_labels[i]])

\* Scoring is over for four reads: the first read is in cluster 0 but sits on
\* the centroid of cluster 1, and the noise read is half a unit from the
\* nearest centroid.
C15_Witness ==
    /\ pc = "save_clusters"
    /\ cluster_labels = <<0, 0, 1, -1>>
    /\ latent_proj.pts = <<0, 1, 0, 1>>
    /\ cluster_distance[1].num = 0
    /\ cluster_distance[4].num * 2 = cluster_distance[4].den

\* C17: when all input embeddings are the same vector, a run that gets as far
\* as scoring ends with one cluster that holds every read and a
\* cluster_distance of 0 in every row, or with every read labelled -1 and the
\* infinity sentinel in every row.
C17_IdenticalInputUniformOutcome ==
    (emb_file.identical /\ Scored) =>
        \/ /\ \E c \in 0..MaxLabel : \A i \in DOMAIN cluster_labels : cluster_labels[i] = c
           /\ \A i \in DOMAIN cluster_distance :
                 ~cluster_distance[i].inf /\ cluster_distance[i].num = 0
        \/ /\ \A i \in DOMAIN cluster_labels : cluster_labels[i] = -1
           /\ \A i \in DOMAIN cluster_distance : cluster_distance[i] = Inf

\* C18: within an epoch every input row is in exactly one minibatch, counting
\* the minibatches already processed and those still to come; no minibatch is
\* empty or longer than the batch size; and when the epoch is over every row
\* has been processed once, in ceil(N / batch_size) minibatches, each of
\* which updated the parameters once.
C18_MinibatchesPartitionInput ==
    LET N == Len(embeddings)
        left(i) == Cardinality({<<b, k>> \in (DOMAIN loop.batches) \X (1..batch_size) :
                                   k <= Len(loop.batches[b]) /\ loop.batches[b][k] = i})
        current == IF loop.at = "accumulate" THEN 1 ELSE 0 IN
    (pc = "train" /\ epoch >= 1) =>
        /\ DOMAIN loop.seen = 1..N
        /\ \A b \in DOMAIN loop.batches : Len(loop.batches[b]) \in 1..batch_size
        /\ \A i \in 1..N : loop.seen[i] + left(i) = 1
        /\ updates = (epoch - 1) * Ceil(N, batch_size) + loop.n_batches + current
        /\ loop.at \in {"epoch_end", "epoch_start"} =>
              /\ \A i \in 1..N : loop.seen[i] = 1
              /\ loop.n_batches = Ceil(N, batch_size)
              /\ updates = epoch * Ceil(N, batch_size)

\* The last epoch over three reads is over: a minibatch of two and a
\* minibatch of one.
C18_Witness ==
    /\ pc = "train"
    /\ loop.at = "epoch_end"
    /\ epoch = epochs
    /\ Len(embeddings) = 3
    /\ loop.n_batches = 2
    /\ \A i \in 1..3 : loop.seen[i] = 1

StepOrder == <<"zero_grad", "forward", "loss", "backward", "clip", "step">>

\* C19: the operations of an epoch come in blocks of six, one block per
\* minibatch and the blocks in the order of the minibatches: gradient reset,
\* forward pass, loss, backpropagation, clipping, update.  Clipping finds the
\* gradients of the backpropagation before it, the update finds them clipped,
\* and a minibatch is fetched only when the block before it is complete.
C19_StepOrder ==
    pc = "train" =>
        /\ \A j \in DOMAIN loop.ops :
              /\ loop.ops[j].op = StepOrder[((j - 1) % 6) + 1]
              /\ loop.ops[j].batch = ((j - 1) \div 6) + 1
              /\ loop.ops[j].op = "clip" => loop.ops[j].grads = "raw"
              /\ loop.ops[j].op = "step" => loop.ops[j].grads = "clipped"
        /\ loop.at \in {"fetch", "zero_grad", "epoch_end"} =>
              Len(loop.ops) = 6 * loop.n_batches
        /\ epoch >= 1 =>
              updates = (epoch - 1) * Ceil(Len(embeddings), batch_size)
                        + Cardinality({j \in DOMAIN loop.ops : loop.ops[j].op = "step"})

\* An epoch of two minibatches is over.
C19_Witness ==
    /\ pc = "train"
    /\ loop.at = "epoch_end"
    /\ Len(loop.ops) = 12
    /\ loop.ops[12] = [op |-> "step", batch |-> 2, grads |-> "clipped"]

\* C20: the forward pass is fed the rows of the minibatch with noise added,
\* the loss is computed against the same rows without noise, the stored input
\* is what was loaded, and the reconstruction errors that follow training are
\* taken row by row against the stored input.
C20_NoiseOnlyOnForwardInput ==
    /\ embeddings = emb_file.rows
    /\ (pc = "train" /\ loop.at \in {"loss", "backward", "clip", "step", "accumulate"}) =>
          /\ Len(loop.fwd_input) = Len(Head(loop.batches))
          /\ \A k \in DOMAIN loop.fwd_input :
                loop.fwd_input[k] = [row |-> embeddings[Head(loop.batches)[k]],
                                     noisy |-> TRUE]
    /\ (pc = "train" /\ loop.at \in {"backward", "clip", "step", "accumulate"}) =>
          /\ Len(loop.loss_target) = Len(Head(loop.batches))
          /\ \A k \in DOMAIN loop.loss_target :
                loop.loss_target[k] = [row |-> embeddings[Head(loop.batches)[k]],
                                       noisy |-> FALSE]
    /\ pc = "scale" =>
          /\ Len(recon_errors) = Len(emb_file.rows)
          /\ \A i \in DOMAIN recon_errors : recon_errors[i].of_row = emb_file.rows[i]

\* The loss of a minibatch of two reads has been computed in the last epoch.
C20_Witness ==
    /\ pc = "train"
    /\ loop.at = "backward"
    /\ epoch = epochs
    /\ Len(loop.loss_target) = 2
    /\ loop.fwd_input[1].noisy /\ ~loop.loss_target[1].noisy

\* The stage a position of main() belongs to: 1 load, 2 train (latent
\* extraction is its last step here), 3 standardization, 4 reduction,
\* 5 clustering, 6 novelty scoring, 7 save, 8 finished.
StageOf(p) ==
    CASE p \in {"load_emb", "load_ids", "align", "prepare"} -> 1
      [] p = "train" -> 2
      [] p = "scale" -> 3
      [] p \in {"umap", "pca"} -> 4
      [] p = "cluster" -> 5
      [] p = "score" -> 6
      [] p \in {"save_clusters", "save_novelty"} -> 7
      [] p = "done" -> 8
      [] OTHER -> 0

\* C21: the run is at one position at a time, moves from a stage only to the
\* next stage (or aborts), and so runs no stage twice; a stage is entered only
\* with the result of the stage before it in place and with no result of a
\* later stage yet produced; the clusterer is called at most once.
C21_StagesInOrder ==
    /\ [][ (pc' # pc /\ pc' # "exit") =>
              /\ StageOf(pc) >= 1
              /\ StageOf(pc') \in {StageOf(pc), StageOf(pc) + 1} ]_vars
    /\ [][ pc = "exit" => pc' = "exit" ]_vars
    /\ [](StageOf(pc) >= 1 =>
           LET st == StageOf(pc)
               N == Len(embeddings) IN
           /\ st >= 2 => N >= 1
           /\ st >= 3 <=> latent # NoMatrix
           /\ st >= 3 => (epoch = epochs /\ Len(latent.pts) = N /\ Len(recon_errors) = N)
           /\ st <= 2 => (epoch <= epochs /\ recon_errors = <<>>)
           /\ st >= 4 <=> latent_scaled # NoMatrix
           /\ st >= 5 => latent_proj # NoMatrix
           /\ st <= 3 => (latent_proj = NoMatrix /\ attempts = <<>>)
           /\ st >= 6 <=> cluster_calls = 1
           /\ st >= 6 => Len(cluster_labels) = N
           /\ st <= 5 => (cluster_calls = 0 /\ cluster_labels = <<>>)
           /\ st >= 7 <=> Len(cluster_distance) = N /\ N >= 1
           /\ st <= 6 => (~clusters_csv.written /\ ~novelty_csv.written)
           /\ st = 8 => (clusters_csv.written /\ novelty_csv.written))

\* A finished run of two reads that went through the linear tier.
C21_Witness ==
    /\ pc = "done"
    /\ Len(embeddings) = 2
    /\ attempts = <<"pca">>
    /\ Logged("Complete")

\* C22: the optimizer steps only inside the epoch loop: before training the
\* parameters have had no update, and from the end of the last epoch on,
\* through extraction, standardization, reduction, clustering, scoring and
\* the saves, and in a run that aborts there, they have had exactly the
\* updates of the E epochs.
C22_ParametersFrozenAfterTraining ==
    LET full == epochs * Ceil(Len(embeddings), batch_size) IN
    /\ StageOf(pc) = 1 => updates = 0
    /\ pc = "train" => updates <= full
    /\ StageOf(pc) >= 3 => updates = full
    /\ pc = "exit" => updates = (IF latent # NoMatrix THEN full ELSE 0)

\* A finished run of two reads: one update in each of the E epochs and none
\* since.
C22_Witness ==
    /\ pc = "done"
    /\ Len(embeddings) = 2
    /\ updates = epochs
    /\ novelty_csv.written

\* The columns of a novelty table other than recon_error.
OtherColumns(rows) ==
    [i \in DOMAIN rows |-> [read_id |-> rows[i].read_id,
                            cluster_distance |-> rows[i].cluster_distance]]

\* C23: the sampling noise of the reconstruction error reaches neither the
\* clustering input nor the labels: two passes over the same parameters and
\* input agree on the latent vectors, the scaled and projected matrices, the
\* labels and the cluster table, and their novelty tables agree in every
\* column but recon_error.
C23_NoiseReachesOnlyReconError ==
    /\ \A k \in DOMAIN pass.done : pass.done[k].latent = pass.mu
    /\ (Len(pass.done) = 1 /\ pass.cur.latent # <<>>) =>
           pass.cur.latent = pass.done[1].latent
    /\ (Len(pass.done) = 1 /\ pass.cur.scaled # NoMatrix) =>
           pass.cur.scaled = pass.done[1].scaled
    /\ (Len(pass.done) = 1 /\ pass.cur.proj # NoMatrix) =>
           pass.cur.proj = pass.done[1].proj
    /\ Len(pass.done) = 2 =>
           /\ pass.done[1].latent = pass.done[2].latent
           /\ pass.done[1].scaled = pass.done[2].scaled
           /\ pass.done[1].proj = pass.done[2].proj
           /\ pass.done[1].labels = pass.done[2].labels
           /\ pass.done[1].clusters = pass.done[2].clusters
           /\ OtherColumns(pass.done[1].novelty) = OtherColumns(pass.done[2].novelty)

C23_Witness ==
    /\ Len(pass.done) = 2
    /\ Len(pass.mu) = 2
    /\ pass.done[1].eps # pass.done[2].eps
    /\ pass.done[1].novelty # pass.done[2].novelty
    /\ pass.done[1].clusters = pass.done[2].clusters
    /\ \E i \in 1..2 : pass.done[1].labels[i] = 0

\* C24: neither table is written before clustering and scoring have covered
\* all N reads, the novelty table is written only after the cluster table,
\* and a run that aborts before the save stage leaves both tables as they
\* were.
C24_TablesWrittenLast ==
    LET N == Len(embeddings) IN
    /\ clusters_csv.written =>
           /\ pc \in {"save_novelty", "done"}
           /\ cluster_calls = 1
           /\ Len(cluster_labels) = N
           /\ Len(cluster_distance) = N
           /\ Len(clusters_csv.rows) = N
    /\ novelty_csv.written => (clusters_csv.written /\ pc = "done")
    /\ pc = "exit" => (clusters_csv = NoTable /\ novelty_csv = NoTable)
    /\ pc \notin {"save_novelty", "done"} => (clusters_csv = NoTable /\ novelty_csv = NoTable)

C24_Witness ==
    /\ pc = "save_novelty"
    /\ Len(embeddings) = 2
    /\ clusters_csv.written
    /\ ~novelty_csv.written
    /\ Len(cluster_distance) = 2

\* C25: for every warm-up W >= 0 and every epoch of 1..E the schedule divides
\* by a positive number and 0 < beta <= beta_final; without a warm-up beta is
\* beta_final at every epoch, and when the epoch budget E is below W beta
\* stays strictly below beta_final for the whole run.
C25_BetaBounds ==
    LET W == sched.W
        E == sched.E
        bf == sched.bf
        h == sched.hist IN
    \A e \in 1..Len(h) :
        /\ h[e].den > 0
        /\ h[e].num > 0
        /\ h[e].num <= bf * h[e].den
        /\ W = 0 => h[e].num = bf * h[e].den
        /\ E < W => h[e].num < bf * h[e].den

\* A run whose epoch budget ends inside the warm-up, tabulated to its end.
C25_Witness ==
    /\ sched.W = 3
    /\ sched.E = 2
    /\ Len(sched.hist) = sched.E
    /\ sched.hist[2].num * 3 = 2 * sched.bf * sched.hist[2].den

\* The commands the orchestrator has started with a given step number.
RunsOf(n) == {i \in DOMAIN orch.ran : orch.ran[i].step = n}

\* The orchestrator has gone past step n.
Past(n) == orch.step > n /\ orch.at \in {"select", "verify", "summary", "done"}

\* C26: a core step (1 preprocess, 2 embeddings, 3 VAE clustering) counts as
\* successful only if its command exits 0 and every expected output file
\* exists; otherwise the orchestrator exits with status 1 at once and no later
\* step starts.
C26_CoreStepGate ==
    \A i \in DOMAIN orch.ran :
        LET r == orch.ran[i] IN
        r.step <= 3 =>
            /\ Past(r.step) => (r.code = 0 /\ Expected(r.step) \subseteq orch.files)
            /\ (r.code # 0 \/ ~(Expected(r.step) \subseteq orch.files)) =>
                   /\ i = Len(orch.ran)
                   /\ orch.step = r.step
                   /\ orch.at \in {"verify", "exit"}
                   /\ r.code # 0 => orch.at = "exit"
                   /\ orch.at = "exit" => orch.exit_code = 1

\* Step 2 exits 0 but leaves no embeddings file, and the run has ended.
C26_Witness ==
    /\ orch.at = "exit"
    /\ Len(orch.ran) = 2
    /\ orch.ran[1] = [step |-> 1, code |-> 0]
    /\ orch.ran[2] = [step |-> 2, code |-> 0]
    /\ "embeddings_npy" \notin orch.files
    /\ orch.exit_code = 1

\* C27: a failure of step 4 (phylogeny) or step 5 (cluster extraction) never
\* ends the run: nothing exits after an optional step has started, after a
\* failed step 4 the orchestrator goes on to step 5 and runs it unless it is
\* skipped, a warning is printed for the failed step, and the run ends at the
\* completion summary with exit status 0.
C27_OptionalStepsNeverAbort ==
    /\ \A i \in DOMAIN orch.ran :
          LET r == orch.ran[i] IN
          (r.step >= 4 /\ r.code # 0) =>
              /\ orch.at \in {"select", "summary", "done"}
              /\ orch.exit_code = 0
              /\ orch.step > r.step
              /\ \E k \in DOMAIN orch.log : orch.log[k] = <<"failed but continuing", r.step>>
              /\ (r.step = 4 /\ orch.at \in {"summary", "done"} /\ ~orch.skip_extract) =>
                     RunsOf(5) # {}
    /\ orch.at = "exit" => \A i \in DOMAIN orch.ran : orch.ran[i].step <= 3
    /\ orch.at = "done" =>
          /\ orch.exit_code = 0
          /\ orch.log[Len(orch.log)] = "PIPELINE COMPLETED SUCCESSFULLY"

\* Steps 4 and 5 both fail and the summary is printed.
C27_Witness ==
    /\ orch.at = "done"
    /\ \E i \in RunsOf(4) : orch.ran[i].code # 0
    /\ \E i \in RunsOf(5) : orch.ran[i].code # 0
    /\ orch.exit_code = 0

\* The steps a finished run must have executed, in order.
RECURSIVE Due(_)
Due(n) ==
    IF n > 5 THEN <<>>
    ELSE (IF /\ orch.resume <= n
             /\ (n = 4 => ~orch.skip_phylo)
             /\ (n = 5 => ~orch.skip_extract)
          THEN <<n>> ELSE <<>>) \o Due(n + 1)

\* C28: for every resume point k of 1..5 and every choice of skip flags, no
\* step below k executes, no skipped step executes, the steps execute in
\* increasing step number and each at most once, a run that reaches the
\* summary has executed every remaining non-skipped step, and without a
\* resume point the first executed step is step 1.
C28_ResumeAndSkip ==
    /\ \A i \in DOMAIN orch.ran :
          /\ orch.ran[i].step \in 1..5
          /\ orch.ran[i].step >= orch.resume
          /\ orch.ran[i].step = 4 => ~orch.skip_phylo
          /\ orch.ran[i].step = 5 => ~orch.skip_extract
          /\ i > 1 => orch.ran[i - 1].step < orch.ran[i].step
    /\ (orch.resume = 0 /\ orch.ran # <<>>) => orch.ran[1].step = 1
    /\ orch.at \in {"summary", "done"} =>
          [i \in DOMAIN orch.ran |-> orch.ran[i].step] = Due(1)

\* A run resumed from step 3 that skips the phylogeny step.
C28_Witness ==
    /\ orch.at = "done"
    /\ orch.resume = 3
    /\ orch.skip_phylo
    /\ ~orch.skip_extract
    /\ Len(orch.ran) = 2
    /\ orch.ran[2].step = 5

\* The sum of a list of qualities.
RECURSIVE Total(_)
Total(s) == IF Len(s) = 0 THEN 0 ELSE s[1] + Total(Tail(s))

\* C29: for every sequence, quality list, window >= 1 and threshold the call
\* returns; it returns its input unchanged when the quality list is empty or
\* shorter than the window; otherwise it returns the slice [left, right) of
\* both lists with 0 <= left <= right <= length, and whenever the returned
\* slice has at least `window` elements, its first window and its last window
\* both have an average quality of at least the threshold.
C29_TrimResult ==
    trim.at = "returned" =>
        LET n == Len(trim.qual)
            w == trim.window
            o == trim.out
            m == Len(o.qual) IN
        IF n = 0 \/ n < w
        THEN o.seq = trim.seq /\ o.qual = trim.qual
        ELSE /\ 0 <= o.left
             /\ o.left <= o.right
             /\ o.right <= n
             /\ o.qual = SubSeq(trim.qual, o.left + 1, o.right)
             /\ o.seq = SubSeq(trim.seq, o.left + 1, o.right)
             /\ m = o.right - o.left
             /\ m >= w =>
                    /\ Total(SubSeq(o.qual, 1, w)) >= trim.min_avg_q * w
                    /\ Total(SubSeq(o.qual, m - w + 1, m)) >= trim.min_avg_q * w

\* Low-quality bases at both ends are cut off and a good middle is kept.
C29_Witness ==
    /\ trim.at = "returned"
    /\ trim.qual = <<0, 2, 2, 0>>
    /\ trim.window = 2
    /\ trim.min_avg_q = 2
    /\ trim.out.seq = <<2, 3>>

\* The sum of the counts of the sequences of S.
RECURSIVE CountSum(_, _)
CountSum(counts, S) ==
    IF S = {} THEN 0
    ELSE LET k == CHOOSE x \in S : TRUE IN counts[k] + CountSum(counts, S \ {k})

KeptReads(p) == CountSum(p.seq_counts, DOMAIN p.seq_counts)

\* C30: every read is counted in exactly one of dropped by quality, dropped
\* by length, or the count of one unique sequence; the counts of the unique
\* sequences sum to total_reads - dropped_len - dropped_qual, which is the
\* number of kept reads the report states; and every unique sequence that is
\* kept has a count of at least 1.
C30_ReadAccounting ==
    /\ [][ prep'.total_reads # prep.total_reads =>
              /\ prep'.total_reads = prep.total_reads + 1
              /\ (prep'.dropped_qual - prep.dropped_qual)
                   + (prep'.dropped_len - prep.dropped_len)
                   + (KeptReads(prep') - KeptReads(prep)) = 1
              /\ prep'.dropped_qual \in {prep.dropped_qual, prep.dropped_qual + 1}
              /\ prep'.dropped_len \in {prep.dropped_len, prep.dropped_len + 1}
              /\ \A k \in DOMAIN prep.seq_counts :
                     /\ k \in DOMAIN prep'.seq_counts
                     /\ prep'.seq_counts[k] \in {prep.seq_counts[k], prep.seq_counts[k] + 1}
              /\ Cardinality(DOMAIN prep'.seq_counts \ DOMAIN prep.seq_counts) <= 1 ]_vars
    /\ [](/\ KeptReads(prep) = prep.total_reads - prep.dropped_len - prep.dropped_qual
          /\ \A k \in DOMAIN prep.seq_counts : prep.seq_counts[k] >= 1
          /\ prep.at = "done" => prep.report.kept_reads = KeptReads(prep))

\* A FASTQ file of three reads: one dropped by quality, one sequence twice.
C30_Witness ==
    /\ prep.at = "done"
    /\ prep.file_type = "fastq"
    /\ prep.total_reads = 3
    /\ prep.dropped_qual = 1
    /\ \E k \in DOMAIN prep.seq_counts : prep.seq_counts[k] = 2

====
